---- MODULE Spec2Model ----
(***************************************************************************)
(* Segmented-axis tick layout of egui_plot: Interval, SegmentedAxis /      *)
(* BrokenXAxis (construction and tick generation), tick projection,        *)
(* overlap clustering and label placement of the segmented X axis, the     *)
(* labels of an ordinary axis, and nice_step and the constructors of       *)
(* Interval called on their own; the multi-series tooltip with its pin     *)
(* list (items/tooltip.rs, navigation.rs) and ColumnarSeries.              *)
(*                                                                         *)
(* Numbers.  A finite f64 is modelled as an integer count of Unit = 1e-16: *)
(* arithmetic on these counts is exact.  f64::EPSILON = 2.220446e-16 lies  *)
(* strictly between 2 and 3 units, so for values x, y on the grid          *)
(* x <= y + f64::EPSILON holds exactly when x <= y + 2; EPSILON below is   *)
(* that count.  The non-finite f64 values NaN, +inf and -inf are kept as   *)
(* separate values with the IEEE-754 comparison rules.  Screen coordinates *)
(* (f32) are integer pixels.                                               *)
(***************************************************************************)
EXTENDS Integers, Sequences, FiniteSets, TLC

VARIABLES
    pc,          \* position in the pipeline of one frame
    input,       \* Vec<Interval> handed to SegmentedAxis::new / BrokenXAxis::new
    gap_in,      \* gap_px handed to the constructor
    axis,        \* the constructed SegmentedAxis / BrokenXAxis: segments, gap_px
    variant,     \* which of the two axis types `axis` is
    step_hint,   \* argument of segment_ticks
    seg_ticks,   \* result of segment_ticks: one tick list per segment
    tf,          \* the frame's PlotTransform
    widget,      \* AxisWidget: hints.label_spacing.min, hints.formatter, rect
    ui,          \* text measurement of the frame: the size of a label's galley
    steps,       \* AxisWidget.steps: the grid marks of an ordinary axis
    axis_xy,     \* add_tick_labels: its argument `axis`
    placement,   \* AxisWidget.hints.placement
    raw_ticks,   \* add_tick_labels: result of compute_segmented_x_ticks
    clusters,    \* add_tick_labels: result of cluster_overlapping_ticks
    idx,         \* add_tick_labels: index of the next cluster of the loop
    last_drawn_center_x,  \* add_tick_labels: Option<f32>
    thickness,   \* add_tick_labels: running maximum of the label heights
    placed,      \* per visited cluster: skipped or not, its label candidates
    painter,     \* the TextShapes added to the painter, in order
    arg,         \* argument of a function called on its own
    result,      \* what that call returned
    nav,         \* NavigationConfig of the plot: pinning_enabled and the pin keys
    options,     \* TooltipOptions: radius_px
    items,       \* the plot's items, in iteration order
    inp,         \* the frame's input: response.hovered(), pointer.latest_pos(), keys pressed
    pins,        \* egui temp memory: the Vec<PinnedPoints> stored for the plot
    hits         \* show_tooltip_across_series_with: the frame's Vec<HitPoint>

axis_vars == <<input, gap_in, axis, variant>>
frame_in == <<tf, widget, ui, steps, axis_xy, placement>>
frame_out == <<raw_ticks, clusters, idx, last_drawn_center_x, thickness, placed, painter>>

fn_vars == <<arg, result>>
tooltip_vars == <<nav, options, items, inp, pins, hits>>

vars == <<pc, axis_vars, step_hint, seg_ticks, frame_in, frame_out, fn_vars, tooltip_vars>>

----------------------------------------------------------------------------
(* f64 values *)

Fin(n) == [k |-> "fin", v |-> n]
NaN == [k |-> "nan", v |-> 0]
PosInf == [k |-> "inf", v |-> 1]
NegInf == [k |-> "inf", v |-> -1]

IsNaN(x) == x.k = "nan"
is_finite(x) == x.k = "fin"

\* IEEE-754 comparisons: every comparison with NaN is false.
FLt(a, b) ==
    /\ ~IsNaN(a)
    /\ ~IsNaN(b)
    /\ IF a.k = "inf"
       THEN a.v = -1 /\ b # NegInf
       ELSE IF b.k = "inf" THEN b.v = 1 ELSE a.v < b.v

FEq(a, b) == ~IsNaN(a) /\ ~IsNaN(b) /\ a = b

FLe(a, b) == FLt(a, b) \/ FEq(a, b)

\* f64::max: if one argument is NaN the other is returned.
FMax(a, b) ==
    IF IsNaN(a) THEN b
    ELSE IF IsNaN(b) THEN a
    ELSE IF FLt(a, b) THEN b ELSE a

----------------------------------------------------------------------------
(* Interval (bound.rs) *)

Interval(s, e) == [start |-> s, end |-> e]

\* Interval::new that never swaps its arguments.
Interval_new_NoSwap(a, b) == Interval(a, b)

Interval_new(a, b) ==
    IF FLe(a, b) THEN Interval(a, b) ELSE Interval(b, a)

is_empty(iv) == FEq(iv.start, iv.end)

----------------------------------------------------------------------------
(* SegmentedAxis::new / BrokenXAxis::new: drop empties, sort by start,     *)
(* merge overlapping or touching intervals.                                *)

\* segments.retain(|iv| !iv.is_empty())
RetainNonEmpty(segments) == SelectSeq(segments, LAMBDA iv : ~is_empty(iv))

\* One insertion of the stable sort_by(a.start.partial_cmp(&b.start)
\* .unwrap_or(Equal)): iv goes before the first element it is Less than.
RECURSIVE InsertByStart(_, _)
InsertByStart(sorted, iv) ==
    IF sorted = <<>> THEN <<iv>>
    ELSE IF FLt(iv.start, Head(sorted).start) THEN <<iv>> \o sorted
    ELSE <<Head(sorted)>> \o InsertByStart(Tail(sorted), iv)

RECURSIVE SortByStart(_)
SortByStart(segments) ==
    IF segments = <<>> THEN <<>>
    ELSE InsertByStart(SortByStart(SubSeq(segments, 1, Len(segments) - 1)),
                       segments[Len(segments)])

\* The merge loop: `merged` so far, `rest` still to visit.
RECURSIVE MergeLoop(_, _)
MergeLoop(merged, rest) ==
    IF rest = <<>> THEN merged
    ELSE LET iv == Head(rest)
             n == Len(merged)
         IN IF n > 0 /\ FLe(iv.start, merged[n].end)
            THEN MergeLoop([merged EXCEPT ![n].end = FMax(@, iv.end)], Tail(rest))
            ELSE MergeLoop(Append(merged, iv), Tail(rest))

SegmentedAxis_new(segments, gap_px) ==
    [segments |-> MergeLoop(<<>>, SortByStart(RetainNonEmpty(segments))),
     gap_px |-> gap_px]

BrokenXAxis_new(segments, gap_px) ==
    [segments |-> MergeLoop(<<>>, SortByStart(RetainNonEmpty(segments))),
     gap_px |-> gap_px]

----------------------------------------------------------------------------
(* Tick generation (segmented_axis.rs, broken_axis.rs) *)

\* f64::EPSILON in units (2.22e-16 rounded down to the grid).
EPSILON == 2

\* Malformed without its `hi <= lo` test.
Malformed_NoInvertedTest(seg) == ~is_finite(seg.start) \/ ~is_finite(seg.end)

\* The guard of both segment_ticks loops:
\* !lo.is_finite() || !hi.is_finite() || hi <= lo
Malformed(seg) ==
    \/ ~is_finite(seg.start)
    \/ ~is_finite(seg.end)
    \/ FLe(seg.end, seg.start)

\* ClampHint with the floor 1 unit (below EPSILON) in place of EPSILON.
ClampHint_FloorBelowEpsilon(hint) == FMax(hint, Fin(1))

\* step_hint.max(f64::EPSILON): an integer count of units, or PosInf.
ClampHint(hint) == FMax(hint, Fin(EPSILON))

\* (span / step_hint.max(EPSILON)).max(1.0) as the exact fraction <<num, den>>.
ApproxSteps(span, hint) ==
    LET h == ClampHint(hint)
    IN IF is_finite(h) /\ span >= h.v THEN <<span, h.v>> ELSE <<1, 1>>

\* raw_step = span / approx_steps (the division is exact on the grid).
RawStep(span, hint) ==
    LET a == ApproxSteps(span, hint) IN (span * a[2]) \div a[1]

\* 10^floor(log10(step)) for step >= 1
RECURSIVE Pow10Floor(_)
Pow10Floor(step) == IF step < 10 THEN 1 ELSE 10 * Pow10Floor(step \div 10)

\* nice_step with the thresholds 1.5, 3 and 7 (so that 3 * pow10 gives 5 and
\* 7 * pow10 gives 10).
nice_step_Thresholds_3_7(step) ==
    LET pow10 == Pow10Floor(step)
        nice_mant == IF 2 * step < 3 * pow10 THEN 1
                     ELSE IF step < 3 * pow10 THEN 2
                     ELSE IF step < 7 * pow10 THEN 5
                     ELSE 10
    IN nice_mant * pow10

\* nice_step that rounds the mantissa up to the next of 1, 2, 5, 10 above it.
nice_step_NextAbove(step) ==
    LET pow10 == Pow10Floor(step)
        nice_mant == IF step < pow10 THEN 1
                     ELSE IF step < 2 * pow10 THEN 2
                     ELSE IF step < 5 * pow10 THEN 5
                     ELSE 10
    IN nice_mant * pow10

\* mant < 1.5 -> 1, < 3.5 -> 2, < 7.5 -> 5, else 10, with mant = step / pow10
nice_step(step) ==
    LET pow10 == Pow10Floor(step)
        nice_mant == IF 2 * step < 3 * pow10 THEN 1
                     ELSE IF 2 * step < 7 * pow10 THEN 2
                     ELSE IF 2 * step < 15 * pow10 THEN 5
                     ELSE 10
    IN nice_mant * pow10

\* (a / b).ceil() for b > 0
CeilDiv(a, b) == -((-a) \div b)

\* The generating loop: t = start_tick + i * nice, pushed until t > hi + EPSILON.
RECURSIVE TickLoop(_, _, _)
TickLoop(t, nice, hi) ==
    IF t > hi + EPSILON THEN <<>>
    ELSE <<t>> \o TickLoop(t + nice, nice, hi)

\* ForceEndsFirstLast without the push of hi.
ForceEndsFirstLast_NoPush(ticks, lo, hi) ==
    IF ticks = <<>> \/ ticks[1] # lo THEN <<lo>> \o ticks ELSE ticks

\* SegmentedAxis: insert lo if it is not the first tick, push hi if it is not
\* the last one.
ForceEndsFirstLast(ticks, lo, hi) ==
    LET a == IF ticks = <<>> \/ ticks[1] # lo THEN <<lo>> \o ticks ELSE ticks
    IN IF a[Len(a)] # hi THEN Append(a, hi) ELSE a

\* BrokenXAxis: insert lo / push hi if the list does not contain it.
ForceEndsContains(ticks, lo, hi) ==
    LET a == IF \A i \in 1..Len(ticks) : ticks[i] # lo THEN <<lo>> \o ticks ELSE ticks
    IN IF \A i \in 1..Len(a) : a[i] # hi THEN Append(a, hi) ELSE a

\* MaxRawStep without its comparison: the raw step of the last valid segment.
RECURSIVE MaxRawStep_LastWins(_, _, _)
MaxRawStep_LastWins(segments, hint, max_raw_step) ==
    IF segments = <<>> THEN max_raw_step
    ELSE LET seg == Head(segments)
             raw_step == RawStep(seg.end.v - seg.start.v, hint)
         IN IF Malformed(seg) THEN MaxRawStep_LastWins(Tail(segments), hint, max_raw_step)
            ELSE MaxRawStep_LastWins(Tail(segments), hint, raw_step)

\* First pass of SegmentedAxis::segment_ticks: the largest raw step of the
\* valid segments, 0 if there is none.
RECURSIVE MaxRawStep(_, _, _)
MaxRawStep(segments, hint, max_raw_step) ==
    IF segments = <<>> THEN max_raw_step
    ELSE LET seg == Head(segments)
             raw_step == RawStep(seg.end.v - seg.start.v, hint)
         IN IF Malformed(seg) THEN MaxRawStep(Tail(segments), hint, max_raw_step)
            ELSE IF raw_step > max_raw_step
                 THEN MaxRawStep(Tail(segments), hint, raw_step)
                 ELSE MaxRawStep(Tail(segments), hint, max_raw_step)

\* Second pass, one segment, with the shared step `nice`.
UniformTicksOf(seg, nice) ==
    IF Malformed(seg) THEN <<>>
    ELSE LET lo == seg.start.v
             hi == seg.end.v
             start_tick == CeilDiv(lo, nice) * nice
         IN ForceEndsFirstLast(TickLoop(start_tick, nice, hi), lo, hi)

SegmentedAxis_segment_ticks(segments, hint) ==
    LET max_raw_step == MaxRawStep(segments, hint, 0)
    IN IF max_raw_step = 0 THEN [i \in 1..Len(segments) |-> <<>>]
       ELSE LET nice == nice_step(max_raw_step)
            IN [i \in 1..Len(segments) |-> UniformTicksOf(segments[i], nice)]

\* One segment of BrokenXAxis::segment_ticks, with its own step.
LocalTicksOf(seg, hint) ==
    IF Malformed(seg) THEN <<>>
    ELSE LET lo == seg.start.v
             hi == seg.end.v
             nice == nice_step(RawStep(hi - lo, hint))
             start_tick == CeilDiv(lo, nice) * nice
         IN ForceEndsContains(TickLoop(start_tick, nice, hi), lo, hi)

BrokenXAxis_segment_ticks(segments, hint) ==
    [i \in 1..Len(segments) |-> LocalTicksOf(segments[i], hint)]

----------------------------------------------------------------------------
(* Tick projection and overlap clustering (axis.rs) *)

\* PlotTransform is not part of the sources at hand; it is modelled as the
\* affine map the specification describes: project(x) in pixels, non-finite for
\* a degenerate frame, and dvalue_dpos = data units per pixel.
position_from_point_x(t, world_x) ==
    IF t.degenerate THEN NaN ELSE Fin(t.origin + t.px_per_unit * world_x)

\* dvalue_dpos()[0] as the fraction <<num, den>>, PosInf for a degenerate frame
dvalue_dpos_x(t) == IF t.degenerate THEN PosInf ELSE Fin(<<1, t.px_per_unit>>)

desired_px_spacing == 80

\* (units_per_px.abs() * desired_px_spacing) as f64
estimate_step_hint_data_units(t) ==
    LET units_per_px == dvalue_dpos_x(t)
    IN IF is_finite(units_per_px)
       THEN Fin((units_per_px.v[1] * desired_px_spacing) \div units_per_px.v[2])
       ELSE PosInf

ScreenTick(w, x, e) == [world_x |-> w, screen_x |-> x, is_segment_edge |-> e]

\* The stable sort_by(a.screen_x.partial_cmp(&b.screen_x).unwrap_or(Equal)),
\* one insertion; screen_x is finite here.
RECURSIVE InsertByScreen(_, _)
InsertByScreen(sorted, tick) ==
    IF sorted = <<>> THEN <<tick>>
    ELSE IF tick.screen_x < Head(sorted).screen_x THEN <<tick>> \o sorted
    ELSE <<Head(sorted)>> \o InsertByScreen(Tail(sorted), tick)

\* SortByScreen that leaves the ticks in the order of the segments.
SortByScreen_AsPushed(ticks) == ticks

RECURSIVE SortByScreen(_)
SortByScreen(ticks) ==
    IF ticks = <<>> THEN <<>>
    ELSE InsertByScreen(SortByScreen(SubSeq(ticks, 1, Len(ticks) - 1)), ticks[Len(ticks)])

\* The inner loop of compute_segmented_x_ticks over one segment's ticks.
RECURSIVE ProjectTicks(_, _, _)
ProjectTicks(t, seg, ticks_for_seg) ==
    IF ticks_for_seg = <<>> THEN <<>>
    ELSE LET world_x == Head(ticks_for_seg)
             screen_x == position_from_point_x(t, world_x)
             rest == ProjectTicks(t, seg, Tail(ticks_for_seg))
         IN IF ~is_finite(screen_x) THEN rest
            ELSE <<ScreenTick(world_x, screen_x.v,
                              FEq(Fin(world_x), seg.start) \/ FEq(Fin(world_x), seg.end))>>
                     \o rest

\* The outer loop, from segment seg_idx on.
RECURSIVE ProjectSegments(_, _, _, _)
ProjectSegments(t, segments, per_seg_ticks, seg_idx) ==
    IF seg_idx > Len(per_seg_ticks) THEN <<>>
    ELSE ProjectTicks(t, segments[seg_idx], per_seg_ticks[seg_idx])
             \o ProjectSegments(t, segments, per_seg_ticks, seg_idx + 1)

compute_segmented_x_ticks(t, bx, hint) ==
    SortByScreen(ProjectSegments(t, bx.segments,
                                 SegmentedAxis_segment_ticks(bx.segments, hint), 1))

CLUSTER_PX_THRESHOLD == 6

Abs(x) == IF x < 0 THEN -x ELSE x

\* GroupLen with <= in place of <: a tick exactly px_merge_threshold from the
\* group's first member joins the group.
RECURSIVE GroupLen_Inclusive(_, _, _)
GroupLen_Inclusive(rest, base_x, px_merge_threshold) ==
    IF rest # <<>> /\ Abs(Head(rest).screen_x - base_x) <= px_merge_threshold
    THEN 1 + GroupLen_Inclusive(Tail(rest), base_x, px_merge_threshold)
    ELSE 0

\* The inner while loop of cluster_overlapping_ticks: how many of the leading
\* ticks of `rest` join the group whose first member is at base_x.
RECURSIVE GroupLen(_, _, _)
GroupLen(rest, base_x, px_merge_threshold) ==
    IF rest # <<>> /\ Abs(Head(rest).screen_x - base_x) < px_merge_threshold
    THEN 1 + GroupLen(Tail(rest), base_x, px_merge_threshold)
    ELSE 0

\* ClusterLoop that takes has_edge from the group's first member alone.
RECURSIVE ClusterLoop_EdgeOfAnchor(_, _)
ClusterLoop_EdgeOfAnchor(ticks, px_merge_threshold) ==
    IF ticks = <<>> THEN <<>>
    ELSE LET base_x == ticks[1].screen_x
             n == 1 + GroupLen(Tail(ticks), base_x, px_merge_threshold)
             group == SubSeq(ticks, 1, n)
         IN <<[screen_x |-> base_x,
               ticks |-> group,
               has_edge |-> group[1].is_segment_edge]>>
                \o ClusterLoop_EdgeOfAnchor(SubSeq(ticks, n + 1, Len(ticks)),
                                            px_merge_threshold)

\* The outer while loop over the sorted ticks.
RECURSIVE ClusterLoop(_, _)
ClusterLoop(ticks, px_merge_threshold) ==
    IF ticks = <<>> THEN <<>>
    ELSE LET base_x == ticks[1].screen_x
             n == 1 + GroupLen(Tail(ticks), base_x, px_merge_threshold)
             group == SubSeq(ticks, 1, n)
         IN <<[screen_x |-> base_x,
               ticks |-> group,
               has_edge |-> \E k \in 1..n : group[k].is_segment_edge]>>
                \o ClusterLoop(SubSeq(ticks, n + 1, Len(ticks)), px_merge_threshold)

cluster_overlapping_ticks(ticks, px_merge_threshold) ==
    ClusterLoop(SortByScreen(ticks), px_merge_threshold)

----------------------------------------------------------------------------
(* Label placement on the segmented X axis (AxisWidget::add_tick_labels) *)

\* if !cluster.has_edge { if let Some(prev_cx) = last_drawn_center_x {
\*     if (cluster.screen_x - prev_cx).abs() < label_spacing.min { continue } } }
SkippedBySpacing(cluster, last, label_spacing_min) ==
    /\ ~cluster.has_edge
    /\ last.some
    /\ Abs(cluster.screen_x - last.x) < label_spacing_min

\* The stable sort of a cluster's ticks by world_x, one insertion.
RECURSIVE InsertByWorld(_, _)
InsertByWorld(sorted, tick) ==
    IF sorted = <<>> THEN <<tick>>
    ELSE IF tick.world_x < Head(sorted).world_x THEN <<tick>> \o sorted
    ELSE <<Head(sorted)>> \o InsertByWorld(Tail(sorted), tick)

RECURSIVE SortByWorld(_)
SortByWorld(ticks) ==
    IF ticks = <<>> THEN <<>>
    ELSE InsertByWorld(SortByWorld(SubSeq(ticks, 1, Len(ticks) - 1)), ticks[Len(ticks)])

\* ToDraw that labels every member of a cluster of several ticks.
ToDraw_AllMembers(cluster) ==
    LET inner == SortByWorld(cluster.ticks)
    IN IF Len(inner) = 1 THEN <<[tick |-> inner[1], side |-> "Center"]>>
       ELSE [k \in 1..Len(inner) |->
                [tick |-> inner[k], side |-> IF k = 1 THEN "Left" ELSE "Right"]]

\* to_draw: the only member centered, or the first and the last by world_x.
ToDraw(cluster) ==
    LET inner == SortByWorld(cluster.ticks)
    IN IF Len(inner) = 1 THEN <<[tick |-> inner[1], side |-> "Center"]>>
       ELSE <<[tick |-> inner[1], side |-> "Left"],
              [tick |-> inner[Len(inner)], side |-> "Right"]>>

\* The caller's formatter: the label text of a value, empty for the values
\* the caller suppresses (those below w.empty_below).
Format(w, value) == IF value < w.empty_below THEN "" ELSE ToString(value)

\* label_pos_x; the galley widths drawn are even, so galley_size.x * 0.5 is exact.
LabelPosX(tick, side, galley_w) ==
    IF side = "Center" THEN tick.screen_x - galley_w \div 2
    ELSE IF side = "Left" THEN tick.screen_x - galley_w - 2
    ELSE tick.screen_x + 2

\* ClippedOff that also drops a label that sticks out of the rect.
ClippedOff_PartlyVisible(label_pos_x, galley_w, w) ==
    \/ label_pos_x < w.rect_min_x
    \/ label_pos_x + galley_w > w.rect_max_x

\* The two clipping tests before painter.add.
ClippedOff(label_pos_x, galley_w, w) ==
    \/ label_pos_x + galley_w < w.rect_min_x
    \/ label_pos_x > w.rect_max_x

\* The TextShapes one cluster adds: the inner for loop over to_draw.
RECURSIVE DrawLabels(_, _, _)
DrawLabels(to_draw, w, u) ==
    IF to_draw = <<>> THEN <<>>
    ELSE LET tick == Head(to_draw).tick
             side == Head(to_draw).side
             txt == Format(w, tick.world_x)
             label_pos_x == LabelPosX(tick, side, u.galley_w)
             rest == DrawLabels(Tail(to_draw), w, u)
         IN IF txt = "" THEN rest
            ELSE IF ClippedOff(label_pos_x, u.galley_w, w) THEN rest
            ELSE <<[pos_x |-> label_pos_x, text |-> txt, width |-> u.galley_w,
                    height |-> u.galley_h, side |-> side, tick |-> tick]>> \o rest

Max(a, b) == IF a >= b THEN a ELSE b

----------------------------------------------------------------------------
(* Inputs *)

\* Most segments of an axis whose ticks are computed.
MaxSegs == 2

\* Longest Vec<Interval> handed to SegmentedAxis::new / BrokenXAxis::new.
MaxInput == 3

SeqsUpTo(S, n) == UNION {[1..m -> S] : m \in 0..n}

\* Arguments of Interval::new for the construction runs; NaN enters as the
\* first argument, so that it ends up as an interval's end.
AxisVals == {Fin(0), Fin(5), Fin(10), Fin(15), PosInf, NegInf}
InputIntervals == {Interval_new(a, b) : a \in AxisVals \cup {NaN}, b \in AxisVals}

Gaps == {0, 4}

\* Segments of an axis whose ticks are computed.  `segments` is a public
\* field, so besides what the constructors return (finite, infinite and NaN
\* ended intervals) an axis can hold inverted and empty intervals.
TickVals == {-10, 0, 7, 9, 10, 20}
TickIntervals ==
    {Interval(Fin(a), Fin(b)) : a \in TickVals, b \in TickVals}
        \cup {Interval(Fin(0), PosInf), Interval(NegInf, Fin(9)), Interval(Fin(7), NaN)}

Hints == {Fin(-5), Fin(0), Fin(1), Fin(5), Fin(10), PosInf, NaN}

NoAxis == [segments |-> <<>>, gap_px |-> 0]

\* No frame is being laid out.
NoTransform == [px_per_unit |-> 1, origin |-> 0, degenerate |-> FALSE]
NoWidget == [label_spacing_min |-> 0, empty_below |-> 0, rect_min_x |-> 0, rect_max_x |-> 0]
NoUi == [galley_w |-> 0, galley_h |-> 0]
None == [some |-> FALSE, x |-> 0]
Some(x) == [some |-> TRUE, x |-> x]

\* The segmented X axis: no grid marks are used.
NoSteps ==
    /\ steps = <<>>
    /\ axis_xy = "X"
    /\ placement = "LeftBottom"

\* The default NavigationConfig, by its pin fields.
NavigationConfig_default ==
    [pinning_enabled |-> TRUE, pin_add_key |-> "P", pin_remove_key |-> "U",
     pins_clear_key |-> "Delete"]

\* No tooltip is shown: nothing is stored for the plot and no hits are collected.
NoTooltip ==
    /\ nav = NavigationConfig_default
    /\ options = [radius_px |-> 50]
    /\ items = <<>>
    /\ inp = [hovered |-> FALSE, pointer |-> None, keys |-> {}]
    /\ pins = <<>>
    /\ hits = <<>>

\* No function is called on its own.
NoCall ==
    /\ arg = <<>>
    /\ result = <<>>

FrameStart ==
    /\ raw_ticks = <<>>
    /\ clusters = <<>>
    /\ idx = 1
    /\ last_drawn_center_x = None
    /\ thickness = 0
    /\ placed = <<>>
    /\ painter = <<>>

NoFrame ==
    /\ tf = NoTransform
    /\ widget = NoWidget
    /\ ui = NoUi
    /\ NoSteps
    /\ NoCall
    /\ NoTooltip
    /\ FrameStart

----------------------------------------------------------------------------
(* Construction: SegmentedAxis::new, BrokenXAxis::new *)

InitAxis ==
    /\ pc = "input"
    /\ input \in SeqsUpTo(InputIntervals, MaxInput)
    /\ gap_in \in Gaps
    /\ axis = NoAxis
    /\ variant = "none"
    /\ step_hint = NaN
    /\ seg_ticks = <<>>
    /\ NoFrame

NewSegmentedAxis ==
    /\ pc = "input"
    /\ axis' = SegmentedAxis_new(input, gap_in)
    /\ variant' = "segmented"
    /\ pc' = "built"
    /\ UNCHANGED <<input, gap_in, step_hint, seg_ticks, frame_in, fn_vars, tooltip_vars, frame_out>>

NewBrokenXAxis ==
    /\ pc = "input"
    /\ axis' = BrokenXAxis_new(input, gap_in)
    /\ variant' = "broken"
    /\ pc' = "built"
    /\ UNCHANGED <<input, gap_in, step_hint, seg_ticks, frame_in, fn_vars, tooltip_vars, frame_out>>

NextAxis == NewSegmentedAxis \/ NewBrokenXAxis

SpecAxis == InitAxis /\ [][NextAxis]_vars

----------------------------------------------------------------------------
(* Tick generation: segment_ticks of either axis type *)

InitTicks ==
    /\ pc = "built"
    /\ input = <<>>
    /\ gap_in = 0
    /\ axis \in {[segments |-> s, gap_px |-> 0] : s \in SeqsUpTo(TickIntervals, MaxSegs)}
    /\ variant \in {"segmented", "broken"}
    /\ step_hint \in Hints
    /\ seg_ticks = <<>>
    /\ NoFrame

SegmentedTicks ==
    /\ pc = "built"
    /\ variant = "segmented"
    /\ seg_ticks' = SegmentedAxis_segment_ticks(axis.segments, step_hint)
    /\ pc' = "ticked"
    /\ UNCHANGED <<axis_vars, step_hint, frame_in, fn_vars, tooltip_vars, frame_out>>

BrokenTicks ==
    /\ pc = "built"
    /\ variant = "broken"
    /\ seg_ticks' = BrokenXAxis_segment_ticks(axis.segments, step_hint)
    /\ pc' = "ticked"
    /\ UNCHANGED <<axis_vars, step_hint, frame_in, fn_vars, tooltip_vars, frame_out>>

NextTicks == SegmentedTicks \/ BrokenTicks

SpecTicks == InitTicks /\ [][NextTicks]_vars

----------------------------------------------------------------------------
(* Construction followed by tick generation *)

\* Intervals handed to the constructors: every pair of four bounds (the
\* zero-width ones among them), one unbounded above, and the two that
\* Interval::new makes of a NaN argument, {100, NaN} and {NaN, 400}.
CoverVals == {Fin(0), Fin(100), Fin(150), Fin(400)}
CoverIntervals ==
    {Interval_new(a, b) : a \in CoverVals, b \in CoverVals}
        \cup {Interval_new(Fin(100), PosInf), Interval_new(NaN, Fin(100)),
              Interval_new(Fin(400), NaN)}

InitCover ==
    /\ pc = "input"
    /\ input \in SeqsUpTo(CoverIntervals, MaxInput)
    /\ gap_in = 4
    /\ axis = NoAxis
    /\ variant = "none"
    /\ step_hint = Fin(50)
    /\ seg_ticks = <<>>
    /\ NoFrame

NextCover == NextAxis \/ NextTicks

SpecCover == InitCover /\ [][NextCover]_vars

----------------------------------------------------------------------------
(* One frame of the segmented X axis: AxisWidget::add_tick_labels *)

\* Intervals handed to SegmentedAxis::new for the frames.  No multiple of the
\* steps these frames use lies within EPSILON above a segment's end, so the
\* ticks, and with them the layout, are those of the same numbers read as
\* data units at px_per_unit pixels per data unit.
LabelIntervals ==
    {Interval_new(Fin(0), Fin(201)), Interval_new(Fin(205), Fin(400)),
     Interval_new(Fin(210), Fin(400)), Interval_new(Fin(790), Fin(900))}

\* Transforms: 1 or 2 pixels per unit, unpanned or panned left, or degenerate.
Transforms ==
    {[px_per_unit |-> s, origin |-> o, degenerate |-> FALSE] : s \in {1, 2}, o \in {0, -300}}
        \cup {[px_per_unit |-> 1, origin |-> 0, degenerate |-> TRUE]}

\* label_spacing.min (60 is the default of the X axis), a formatter that
\* suppresses no value or the values below 795, and the axis rect.
Widgets ==
    {[label_spacing_min |-> m, empty_below |-> b, rect_min_x |-> 0, rect_max_x |-> 800] :
        m \in {20, 60}, b \in {0, 795}}

\* Galley sizes of a label (even widths).
Uis == {[galley_w |-> w, galley_h |-> 12] : w \in {10, 30}}

Init ==
    /\ pc = "input"
    /\ input \in SeqsUpTo(LabelIntervals, MaxSegs)
    /\ gap_in = 4
    /\ axis = NoAxis
    /\ variant = "none"
    /\ step_hint = NaN
    /\ seg_ticks = <<>>
    /\ tf \in Transforms
    /\ widget \in Widgets
    /\ ui \in Uis
    /\ NoSteps
    /\ NoCall
    /\ NoTooltip
    /\ FrameStart

\* let step_hint = estimate_step_hint_data_units(transform);
EstimateStepHint ==
    /\ pc = "built"
    /\ variant = "segmented"
    /\ step_hint' = estimate_step_hint_data_units(tf)
    /\ pc' = "hinted"
    /\ UNCHANGED <<axis_vars, seg_ticks, frame_in, fn_vars, tooltip_vars, frame_out>>

\* let raw_ticks = compute_segmented_x_ticks(transform, bx, step_hint);
ComputeTicks ==
    /\ pc = "hinted"
    /\ seg_ticks' = SegmentedAxis_segment_ticks(axis.segments, step_hint)
    /\ raw_ticks' = compute_segmented_x_ticks(tf, axis, step_hint)
    /\ pc' = "projected"
    /\ UNCHANGED <<axis_vars, step_hint, frame_in, fn_vars, tooltip_vars, clusters, idx,
                   last_drawn_center_x, thickness, placed, painter>>

\* let clusters = cluster_overlapping_ticks(raw_ticks, CLUSTER_PX_THRESHOLD);
ClusterTicks ==
    /\ pc = "projected"
    /\ clusters' = cluster_overlapping_ticks(raw_ticks, CLUSTER_PX_THRESHOLD)
    /\ pc' = "clustered"
    /\ UNCHANGED <<axis_vars, step_hint, seg_ticks, frame_in, fn_vars, tooltip_vars, raw_ticks, idx,
                   last_drawn_center_x, thickness, placed, painter>>

\* thickness = thickness.max(galley_size.y), once per label drawn
RECURSIVE RaiseThickness(_, _)
RaiseThickness(t, shapes) ==
    IF shapes = <<>> THEN t
    ELSE RaiseThickness(Max(t, Head(shapes).height), Tail(shapes))

\* last_drawn_center_x = Some(cluster.screen_x), at the end of the loop body
NextLastDrawn(cluster, shapes) == Some(cluster.screen_x)

\* One iteration of `for cluster in clusters`.
PlaceCluster ==
    /\ pc = "clustered"
    /\ idx <= Len(clusters)
    /\ LET cluster == clusters[idx]
       IN IF SkippedBySpacing(cluster, last_drawn_center_x, widget.label_spacing_min)
          THEN /\ placed' = Append(placed, [skipped |-> TRUE, to_draw |-> <<>>, drawn |-> <<>>])
               /\ UNCHANGED <<last_drawn_center_x, thickness, painter>>
          ELSE LET to_draw == ToDraw(cluster)
                   shapes == DrawLabels(to_draw, widget, ui)
               IN /\ painter' = painter \o shapes
                  /\ thickness' = RaiseThickness(thickness, shapes)
                  /\ last_drawn_center_x' = NextLastDrawn(cluster, shapes)
                  /\ placed' = Append(placed, [skipped |-> FALSE, to_draw |-> to_draw,
                                               drawn |-> shapes])
    /\ idx' = idx + 1
    /\ UNCHANGED <<pc, axis_vars, step_hint, seg_ticks, frame_in, fn_vars, tooltip_vars, raw_ticks, clusters>>

\* return thickness;
ReturnThickness ==
    /\ pc = "clustered"
    /\ idx > Len(clusters)
    /\ pc' = "done"
    /\ UNCHANGED <<axis_vars, step_hint, seg_ticks, frame_in, fn_vars, tooltip_vars, frame_out>>

Next ==
    \/ NewSegmentedAxis
    \/ EstimateStepHint
    \/ ComputeTicks
    \/ ClusterTicks
    \/ PlaceCluster
    \/ ReturnThickness

Spec == Init /\ [][Next]_vars

----------------------------------------------------------------------------
(* cluster_overlapping_ticks on its own *)

\* Most ticks handed to cluster_overlapping_ticks.
MaxTicks == 3

\* Screen positions of the ticks.
ScreenXs == {0, 3, 5, 6, 7, 12, 13}

InitCluster ==
    /\ pc = "projected"
    /\ input = <<>>
    /\ gap_in = 0
    /\ axis = NoAxis
    /\ variant = "none"
    /\ step_hint = NaN
    /\ seg_ticks = <<>>
    /\ tf = NoTransform
    /\ widget = NoWidget
    /\ ui = NoUi
    /\ NoSteps
    /\ NoCall
    /\ NoTooltip
    /\ \E n \in 0..MaxTicks :
           \E xs \in [1..n -> ScreenXs], es \in [1..n -> BOOLEAN] :
               raw_ticks = [i \in 1..n |-> ScreenTick(10 * i, xs[i], es[i])]
    /\ clusters = <<>>
    /\ idx = 1
    /\ last_drawn_center_x = None
    /\ thickness = 0
    /\ placed = <<>>
    /\ painter = <<>>

NextCluster == ClusterTicks

SpecCluster == InitCluster /\ [][NextCluster]_vars

----------------------------------------------------------------------------
(* compute_segmented_x_ticks on its own *)

\* Transforms, and one of a flipped x axis: screen x falls as x grows.
ProjectTransforms ==
    Transforms \cup {[px_per_unit |-> -1, origin |-> 1000, degenerate |-> FALSE]}

InitProject ==
    /\ pc = "hinted"
    /\ input \in SeqsUpTo(LabelIntervals, MaxSegs)
    /\ gap_in = 4
    /\ axis = SegmentedAxis_new(input, gap_in)
    /\ variant = "segmented"
    /\ step_hint \in {Fin(40), Fin(80)}
    /\ seg_ticks = <<>>
    /\ tf \in ProjectTransforms
    /\ widget = NoWidget
    /\ ui = NoUi
    /\ NoSteps
    /\ NoCall
    /\ NoTooltip
    /\ FrameStart

NextProject == ComputeTicks

SpecProject == InitProject /\ [][NextProject]_vars

----------------------------------------------------------------------------
(* Ordinary (non-segmented) axes: the loop over self.steps *)

SIDE_MARGIN == 4

\* Pixels per data unit along the axis; 0 for a degenerate frame.
dpos_dvalue(t) == IF t.degenerate THEN 0 ELSE t.px_per_unit

\* (transform.dpos_dvalue()[axis] * step.step_size).abs()
spacing_in_points(t, step) == Abs(dpos_dvalue(t) * step.step_size)

\* galley_size: the galley's own size, widened by the side margins on Y.
galley_size(a, step) ==
    IF a = "X" THEN [x |-> step.galley_w, y |-> step.galley_h]
    ELSE [x |-> step.galley_w + 2 * SIDE_MARGIN, y |-> step.galley_h]

\* galley_size[axis as usize]
AlongAxis(a, size) == IF a = "X" THEN size.x ELSE size.y

\* The three tests a step passes before its label is painted.
StepPainted(w, t, a, step) ==
    /\ Format(w, step.value) # ""
    /\ ~(spacing_in_points(t, step) <= w.label_spacing_min)
    /\ ~(spacing_in_points(t, step) < AlongAxis(a, galley_size(a, step)))

\* StepThickness that takes the galley's own width on Y.
StepThickness_NoMargin(a, t, step) ==
    IF a = "X" THEN Max(t, step.galley_h) ELSE Max(t, step.galley_w)

\* thickness.max(galley_size.y) on X, thickness.max(galley_size.x) on Y
StepThickness(a, t, step) ==
    IF a = "X" THEN Max(t, galley_size(a, step).y) ELSE Max(t, galley_size(a, step).x)

\* The TextShape of a step; the sizes drawn are even, so the halves are exact.
StepShape(w, t, a, p, step) ==
    LET size == galley_size(a, step)
        center == position_from_point_x(t, step.value).v
        pos == IF a = "X"
               THEN [x |-> center - size.x \div 2,
                     y |-> IF p = "LeftBottom" THEN w.rect_min_y
                           ELSE w.rect_max_y - size.y]
               ELSE [x |-> IF p = "LeftBottom" THEN w.rect_max_x - size.x + SIDE_MARGIN
                           ELSE w.rect_min_x + SIDE_MARGIN,
                     y |-> center - size.y \div 2]
    IN [pos_x |-> pos.x, pos_y |-> pos.y, text |-> Format(w, step.value),
        width |-> step.galley_w, height |-> step.galley_h, step |-> step]

\* Most grid marks of an ordinary axis.
MaxSteps == 2

\* Grid marks with the size of the galley of their text.
GridMarks ==
    {[value |-> v, step_size |-> s, galley_w |-> g[1], galley_h |-> g[2]] :
        v \in {0, 100}, s \in {10, 100}, g \in {<<10, 12>>, <<10, 16>>, <<120, 16>>}}

StepTransforms ==
    {[px_per_unit |-> s, origin |-> 0, degenerate |-> FALSE] : s \in {1, 2}}
        \cup {[px_per_unit |-> 1, origin |-> 0, degenerate |-> TRUE]}

StepWidgets ==
    {[label_spacing_min |-> m, empty_below |-> b, rect_min_x |-> 0, rect_max_x |-> 800,
      rect_min_y |-> 0, rect_max_y |-> 40] : m \in {20, 60}, b \in {0, 50}}

InitSteps ==
    /\ pc = "steps"
    /\ input = <<>>
    /\ gap_in = 0
    /\ axis = NoAxis
    /\ variant = "none"
    /\ step_hint = NaN
    /\ seg_ticks = <<>>
    /\ tf \in StepTransforms
    /\ widget \in StepWidgets
    /\ ui = NoUi
    /\ steps \in SeqsUpTo(GridMarks, MaxSteps)
    /\ axis_xy \in {"X", "Y"}
    /\ placement \in {"LeftBottom", "RightTop"}
    /\ NoCall
    /\ NoTooltip
    /\ FrameStart

\* One iteration of `for step in self.steps.iter()`.
StepLabel ==
    /\ pc = "steps"
    /\ idx <= Len(steps)
    /\ LET step == steps[idx]
       IN IF StepPainted(widget, tf, axis_xy, step)
          THEN /\ thickness' = StepThickness(axis_xy, thickness, step)
               /\ painter' = Append(painter, StepShape(widget, tf, axis_xy, placement, step))
          ELSE UNCHANGED <<thickness, painter>>
    /\ idx' = idx + 1
    /\ UNCHANGED <<pc, axis_vars, step_hint, seg_ticks, frame_in, fn_vars, tooltip_vars, raw_ticks, clusters,
                   last_drawn_center_x, placed>>

\* The final expression `thickness`.
ReturnStepsThickness ==
    /\ pc = "steps"
    /\ idx > Len(steps)
    /\ pc' = "done"
    /\ UNCHANGED <<axis_vars, step_hint, seg_ticks, frame_in, fn_vars, tooltip_vars, frame_out>>

\* add_tick_labels as a whole: the segmented X axis or an ordinary axis.
InitLabels == Init \/ InitSteps

NextLabels == Next \/ StepLabel \/ ReturnStepsThickness

SpecLabels == InitLabels /\ [][NextLabels]_vars

----------------------------------------------------------------------------
(* nice_step on its own *)

\* Neither an axis nor a frame is in use.
Idle ==
    /\ input = <<>>
    /\ gap_in = 0
    /\ axis = NoAxis
    /\ variant = "none"
    /\ step_hint = NaN
    /\ seg_ticks = <<>>
    /\ tf = NoTransform
    /\ widget = NoWidget
    /\ ui = NoUi
    /\ NoSteps
    /\ NoTooltip
    /\ FrameStart

\* Greatest step, in units, handed to nice_step.
MaxStep == 1200

InitNice ==
    /\ pc = "nice_step"
    /\ Idle
    /\ \E step \in 1..MaxStep : arg = <<step>>
    /\ result = <<>>

\* nice_step(step)
CallNiceStep ==
    /\ pc = "nice_step"
    /\ result = <<>>
    /\ result' = <<nice_step(arg[1])>>
    /\ UNCHANGED <<pc, axis_vars, step_hint, seg_ticks, frame_in, frame_out, tooltip_vars, arg>>

\* nice_step of what nice_step returned
CallNiceStepAgain ==
    /\ pc = "nice_step"
    /\ Len(result) = 1
    /\ result' = Append(result, nice_step(result[1]))
    /\ UNCHANGED <<pc, axis_vars, step_hint, seg_ticks, frame_in, frame_out, tooltip_vars, arg>>

NextNice == CallNiceStep \/ CallNiceStepAgain

SpecNice == InitNice /\ [][NextNice]_vars

----------------------------------------------------------------------------
(* The constructors of Interval on their own *)

Interval_closed(a, b) == Interval_new(a, b)
Interval_below(b) == Interval_new(NegInf, b)
Interval_above(a) == Interval_new(a, PosInf)
Interval_all == Interval_new(NegInf, PosInf)

\* The f64 values handed to the constructors.
CallVals == AxisVals \cup {Fin(-5), NaN}

InitInterval ==
    /\ pc = "interval"
    /\ Idle
    /\ \/ \E f \in {"new", "closed"}, a \in CallVals, b \in CallVals : arg = <<f, a, b>>
       \/ \E f \in {"below", "above"}, a \in CallVals : arg = <<f, a>>
       \/ arg = <<"all">>
    /\ result = <<>>

Returns(iv) ==
    /\ result' = Append(result, iv)
    /\ UNCHANGED <<pc, axis_vars, step_hint, seg_ticks, frame_in, frame_out, tooltip_vars, arg>>

\* Interval::new(a, b)
CallNew ==
    /\ pc = "interval"
    /\ arg[1] = "new"
    /\ result = <<>>
    /\ Returns(Interval_new(arg[2], arg[3]))

\* Interval::new(b, a), after Interval::new(a, b)
CallNewSwapped ==
    /\ pc = "interval"
    /\ arg[1] = "new"
    /\ Len(result) = 1
    /\ Returns(Interval_new(arg[3], arg[2]))

\* Interval::closed(a, b)
CallClosed ==
    /\ pc = "interval"
    /\ arg[1] = "closed"
    /\ result = <<>>
    /\ Returns(Interval_closed(arg[2], arg[3]))

\* Interval::below(b)
CallBelow ==
    /\ pc = "interval"
    /\ arg[1] = "below"
    /\ result = <<>>
    /\ Returns(Interval_below(arg[2]))

\* Interval::above(a)
CallAbove ==
    /\ pc = "interval"
    /\ arg[1] = "above"
    /\ result = <<>>
    /\ Returns(Interval_above(arg[2]))

\* Interval::all()
CallAll ==
    /\ pc = "interval"
    /\ arg[1] = "all"
    /\ result = <<>>
    /\ Returns(Interval_all)

NextInterval ==
    \/ CallNew
    \/ CallNewSwapped
    \/ CallClosed
    \/ CallBelow
    \/ CallAbove
    \/ CallAll

SpecInterval == InitInterval /\ [][NextInterval]_vars

----------------------------------------------------------------------------
(* Multi-series tooltip and pins (items/tooltip.rs, navigation.rs) *)

\* Coordinates of this part are whole data units and whole pixels.
PlotPoint(x, y) == [x |-> x, y |-> y]

HitPoint(name, value, pos_x, dx) ==
    [series_name |-> name, value |-> value, screen_pos_x |-> pos_x, screen_dx |-> dx]

PinnedPoints(h, x) == [hits |-> h, plot_x |-> x]

\* transform.frame(): the plot's rect on screen, by its left and right side.
PlotFrame == [left |-> 0, right |-> 200]

\* transform.value_from_position(pos).x, the inverse of position_from_point_x;
\* the pointer positions used are multiples of px_per_unit.
value_from_position_x(t, pos_x) == (pos_x - t.origin) \div t.px_per_unit

Min(a, b) == IF a <= b THEN a ELSE b

\* The samples the loop over an item's geometry visits, in order, each with
\* the index ix the loop has for it (in BlocksXY the index within its block).
RECURSIVE VisitedXY(_, _, _)
VisitedXY(xs, ys, ix) ==
    IF ix >= Min(Len(xs), Len(ys)) THEN <<>>
    ELSE <<[ix |-> ix, value |-> PlotPoint(xs[ix + 1], ys[ix + 1])]>>
             \o VisitedXY(xs, ys, ix + 1)

RECURSIVE VisitedBlocks(_, _, _)
VisitedBlocks(xs_blocks, ys_blocks, b) ==
    IF b >= Min(Len(xs_blocks), Len(ys_blocks)) THEN <<>>
    ELSE VisitedXY(xs_blocks[b + 1], ys_blocks[b + 1], 0)
             \o VisitedBlocks(xs_blocks, ys_blocks, b + 1)

Visited(geometry) ==
    IF geometry.kind = "Points"
    THEN [i \in 1..Len(geometry.points) |-> [ix |-> i - 1, value |-> geometry.points[i]]]
    ELSE IF geometry.kind = "PointsXY" THEN VisitedXY(geometry.xs, geometry.ys, 0)
    ELSE IF geometry.kind = "BlocksXY"
    THEN VisitedBlocks(geometry.xs_blocks, geometry.ys_blocks, 0)
    ELSE <<>>

\* (best_ix, best_dx, best_pos) before the loop
NoBest == [ix |-> None, dx |-> PosInf, pos_x |-> 0]

\* The loop over the samples of one item: skip those outside the band, keep
\* the one strictly closer to the pointer than the best so far.
RECURSIVE ClosestInBand(_, _, _, _, _, _)
ClosestInBand(visited, best, t, pointer_x, band_min_x, band_max_x) ==
    IF visited = <<>> THEN best
    ELSE LET v == Head(visited)
             p == position_from_point_x(t, v.value.x)
             dx == Fin(Abs(p.v - pointer_x))
             next == IF p.v < band_min_x \/ p.v > band_max_x THEN best
                     ELSE IF FLt(dx, best.dx)
                     THEN [ix |-> Some(v.ix), dx |-> dx, pos_x |-> p.v]
                     ELSE best
         IN ClosestInBand(Tail(visited), next, t, pointer_x, band_min_x, band_max_x)

\* if let Some(ix) = best_ix { let value = match item.geometry() {...} }:
\* the value at ix, none for a geometry other than Points and PointsXY.
ValueAt(geometry, ix) ==
    IF geometry.kind = "Points" THEN Some(geometry.points[ix + 1])
    ELSE IF geometry.kind = "PointsXY"
    THEN Some(PlotPoint(geometry.xs[ix + 1], geometry.ys[ix + 1]))
    ELSE None

\* The body of for item in self.actions.iter_items(): the hits with that of
\* one item pushed, if it has one.
HitsWith(hs, item, t, pointer_x, band_min_x, band_max_x) ==
    IF ~item.allow_hover THEN hs
    ELSE LET best == ClosestInBand(Visited(item.geometry), NoBest, t, pointer_x,
                                   band_min_x, band_max_x)
         IN IF ~best.ix.some THEN hs
            ELSE LET value == ValueAt(item.geometry, best.ix.x)
                 IN IF ~value.some THEN hs
                    ELSE Append(hs, HitPoint(item.name, value.x, best.pos_x, best.dx.v))

RECURSIVE CollectHits(_, _, _, _, _, _)
CollectHits(hs, its, t, pointer_x, band_min_x, band_max_x) ==
    IF its = <<>> THEN hs
    ELSE CollectHits(HitsWith(hs, Head(its), t, pointer_x, band_min_x, band_max_x),
                     Tail(its), t, pointer_x, band_min_x, band_max_x)

\* Series names in the order of str::cmp.
SeriesNames == <<"a", "b", "c", "d">>

NameRank(name) == CHOOSE i \in 1..Len(SeriesNames) : SeriesNames[i] = name

\* hits.sort_by(screen_dx, then series_name): Less of the comparator
HitBefore(a, b) ==
    \/ a.screen_dx < b.screen_dx
    \/ a.screen_dx = b.screen_dx /\ NameRank(a.series_name) < NameRank(b.series_name)

RECURSIVE InsertHit(_, _)
InsertHit(sorted, h) ==
    IF sorted = <<>> THEN <<h>>
    ELSE IF HitBefore(h, Head(sorted)) THEN <<h>> \o sorted
    ELSE <<Head(sorted)>> \o InsertHit(Tail(sorted), h)

RECURSIVE SortHits(_)
SortHits(hs) ==
    IF hs = <<>> THEN <<>> ELSE InsertHit(SortHits(SubSeq(hs, 1, Len(hs) - 1)), hs[Len(hs)])

\* Vec::pop
Pop(v) == IF v = <<>> THEN v ELSE SubSeq(v, 1, Len(v) - 1)

\* KeysWithoutHits that does not read U.
KeysWithoutHits_DeleteOnly(stored, keys) ==
    IF "Delete" \in keys THEN <<>> ELSE stored

\* The key handling of a hovered frame without hits: U, then Delete.
KeysWithoutHits(stored, keys) ==
    LET popped == IF "U" \in keys THEN Pop(stored) ELSE stored
    IN IF "Delete" \in keys THEN <<>> ELSE popped

\* KeysWithHits that puts a new pin in front of the list.
KeysWithHits_PushFront(stored, keys, pin) ==
    LET pushed == IF "P" \in keys THEN <<pin>> \o stored ELSE stored
        popped == IF "U" \in keys THEN Pop(pushed) ELSE pushed
    IN IF "Delete" \in keys THEN <<>> ELSE popped

\* The key handling of a hovered frame with hits: P, then U, then Delete.
KeysWithHits(stored, keys, pin) ==
    LET pushed == IF "P" \in keys THEN Append(stored, pin) ELSE stored
        popped == IF "U" \in keys THEN Pop(pushed) ELSE pushed
    IN IF "Delete" \in keys THEN <<>> ELSE popped

\* The frame's hits and the pin list in memory after the call, which loaded
\* `stored`; an early return leaves no hits and the memory as it was.
show_tooltip_across_series_with(o, t, its, i, stored) ==
    IF ~i.pointer.some THEN [hits |-> <<>>, pins |-> stored]
    ELSE LET pointer_x == i.pointer.x
             band_min_x == Max(pointer_x - o.radius_px, PlotFrame.left)
             band_max_x == Min(pointer_x + o.radius_px, PlotFrame.right)
             found == CollectHits(<<>>, its, t, pointer_x, band_min_x, band_max_x)
             pin == PinnedPoints(SortHits(found), value_from_position_x(t, pointer_x))
         IN IF band_max_x <= band_min_x THEN [hits |-> <<>>, pins |-> stored]
            ELSE IF found = <<>>
            THEN [hits |-> <<>>,
                  pins |-> IF i.hovered THEN KeysWithoutHits(stored, i.keys) ELSE stored]
            ELSE [hits |-> SortHits(found),
                  pins |-> IF i.hovered THEN KeysWithHits(stored, i.keys, pin) ELSE stored]

\* Greatest number of pins kept.
MaxPins == 2

\* Keys of the keyboard: the three the tooltip reads and one more.
Keys == {"P", "U", "Delete", "A"}

\* Pointer positions: unknown, inside the frame, right of it.
Pointers == {None, Some(50), Some(150), Some(250)}

\* The input of a frame; a hovered plot has the pointer inside its frame.
Inputs ==
    {i \in [hovered : BOOLEAN, pointer : Pointers, keys : SUBSET Keys] :
        i.hovered => /\ i.pointer.some
                     /\ i.pointer.x >= PlotFrame.left
                     /\ i.pointer.x <= PlotFrame.right}

\* NavigationConfig::default(), .pinning(false), and .shortcuts_pin(A, None, Delete)
NavigationConfigs ==
    {NavigationConfig_default,
     [NavigationConfig_default EXCEPT !.pinning_enabled = FALSE],
     [NavigationConfig_default EXCEPT !.pin_add_key = "A", !.pin_remove_key = "None"]}

Item(name, allow_hover, geometry) ==
    [name |-> name, allow_hover |-> allow_hover, geometry |-> geometry]

\* The items of three plots: two lines (one with a y short of its xs); a
\* series in blocks, a series that does not take part in hovering, an item
\* without points, and a line; and a plot with nothing to hover.
ItemLists ==
    {<<Item("b", TRUE, [kind |-> "Points",
                        points |-> <<PlotPoint(40, 1), PlotPoint(60, 2), PlotPoint(75, 3)>>]),
       Item("a", TRUE, [kind |-> "PointsXY", xs |-> <<50, 25, 150>>, ys |-> <<5, 6>>])>>,
     <<Item("c", TRUE, [kind |-> "BlocksXY", xs_blocks |-> << <<40, 50>>, <<60>> >>,
                        ys_blocks |-> << <<1, 2>>, <<3>> >>]),
       Item("d", FALSE, [kind |-> "Points", points |-> <<PlotPoint(50, 1)>>]),
       Item("a", TRUE, [kind |-> "Rects"]),
       Item("b", TRUE, [kind |-> "Points", points |-> <<PlotPoint(50, 7)>>])>>,
     <<Item("d", FALSE, [kind |-> "Points", points |-> <<PlotPoint(50, 1)>>])>>}

\* 1 or 2 pixels per data unit.
TooltipTransforms ==
    {[px_per_unit |-> s, origin |-> 0, degenerate |-> FALSE] : s \in {1, 2}}

InitTooltip ==
    /\ pc = "tooltip"
    /\ input = <<>>
    /\ gap_in = 0
    /\ axis = NoAxis
    /\ variant = "none"
    /\ step_hint = NaN
    /\ seg_ticks = <<>>
    /\ tf \in TooltipTransforms
    /\ widget = NoWidget
    /\ ui = NoUi
    /\ NoSteps
    /\ NoCall
    /\ FrameStart
    /\ nav \in NavigationConfigs
    /\ options \in {[radius_px |-> r] : r \in {0, 20}}
    /\ items \in ItemLists
    /\ inp = [hovered |-> FALSE, pointer |-> None, keys |-> {}]
    /\ pins = <<>>
    /\ hits = <<>>

\* One frame: the plot is shown and show_tooltip_across_series_with is called.
\* Frames that would store more than MaxPins pins are left out.
TooltipFrame ==
    /\ pc = "tooltip"
    /\ \E i \in Inputs :
          /\ inp' = i
          /\ LET out == show_tooltip_across_series_with(options, tf, items, i, pins)
             IN /\ Len(out.pins) <= MaxPins
                /\ hits' = out.hits
                /\ pins' = out.pins
    /\ UNCHANGED <<pc, axis_vars, step_hint, seg_ticks, frame_in, frame_out, fn_vars,
                   nav, options, items>>

NextTooltip == TooltipFrame

SpecTooltip == InitTooltip /\ [][NextTooltip]_vars

----------------------------------------------------------------------------
(* ColumnarSeries (items/columnar_series.rs) *)

\* usize::MAX of a narrow usize; slices are far shorter.
usize_MAX == 7

saturating_add(i, n) == IF i + n > usize_MAX THEN usize_MAX ELSE i + n

\* Greatest length of a slice handed to a constructor.
MaxLen == 3

\* The caller's slices of n samples.
XsOfLen(n) == [k \in 1..n |-> 10 * k]
YsOfLen(n) == [k \in 1..n |-> 10 * k + 1]

ColumnarSeries(xs, ys) == [panicked |-> FALSE, xs |-> xs, ys |-> ys]

\* The assert! of new has failed: no value is returned.
Panicked == [panicked |-> TRUE, xs |-> <<>>, ys |-> <<>>]

ColumnarSeries_new(xs, ys) ==
    IF Len(xs) = Len(ys) THEN ColumnarSeries(xs, ys) ELSE Panicked

\* new_truncating that leaves xs as long as it is.
ColumnarSeries_new_truncating_FullXs(xs, ys) ==
    LET n == Min(Len(xs), Len(ys))
    IN ColumnarSeries(xs, SubSeq(ys, 1, n))

ColumnarSeries_new_truncating(xs, ys) ==
    LET n == Min(Len(xs), Len(ys))
    IN ColumnarSeries(SubSeq(xs, 1, n), SubSeq(ys, 1, n))

ColumnarSeries_EMPTY == ColumnarSeries(<<>>, <<>>)

ColumnarSeries_from(tup) == ColumnarSeries_new(tup[1], tup[2])

ColumnarSeries_len(s) == Len(s.xs)

\* core::ops::Bound
Unbounded == [bound |-> "Unbounded", i |-> 0]
Included(i) == [bound |-> "Included", i |-> i]
Excluded(i) == [bound |-> "Excluded", i |-> i]

ColumnarSeries_slice(s, range) ==
    LET len == ColumnarSeries_len(s)
        start == Min(IF range.start_bound.bound = "Unbounded" THEN 0
                     ELSE IF range.start_bound.bound = "Included" THEN range.start_bound.i
                     ELSE saturating_add(range.start_bound.i, 1),
                     len)
        end == Min(IF range.end_bound.bound = "Unbounded" THEN len
                   ELSE IF range.end_bound.bound = "Included"
                   THEN saturating_add(range.end_bound.i, 1)
                   ELSE range.end_bound.i,
                   len)
    IN IF end <= start THEN ColumnarSeries_EMPTY
       ELSE ColumnarSeries(SubSeq(s.xs, start + 1, end), SubSeq(s.ys, start + 1, end))

Bounds == {Unbounded} \cup {Included(i) : i \in 0..usize_MAX}
              \cup {Excluded(i) : i \in 0..usize_MAX}

\* Every RangeBounds<usize>
Ranges == [start_bound : Bounds, end_bound : Bounds]

InitSeries ==
    /\ pc = "series"
    /\ Idle
    /\ arg = <<>>
    /\ result = <<>>

CallSeriesNew ==
    /\ pc = "series"
    /\ \E n \in 0..MaxLen, m \in 0..MaxLen :
          /\ arg' = <<"new", XsOfLen(n), YsOfLen(m)>>
          /\ result' = <<ColumnarSeries_new(XsOfLen(n), YsOfLen(m))>>
    /\ UNCHANGED <<pc, axis_vars, step_hint, seg_ticks, frame_in, frame_out, tooltip_vars>>

CallSeriesNewTruncating ==
    /\ pc = "series"
    /\ \E n \in 0..MaxLen, m \in 0..MaxLen :
          /\ arg' = <<"new_truncating", XsOfLen(n), YsOfLen(m)>>
          /\ result' = <<ColumnarSeries_new_truncating(XsOfLen(n), YsOfLen(m))>>
    /\ UNCHANGED <<pc, axis_vars, step_hint, seg_ticks, frame_in, frame_out, tooltip_vars>>

CallSeriesEmpty ==
    /\ pc = "series"
    /\ arg' = <<"EMPTY">>
    /\ result' = <<ColumnarSeries_EMPTY>>
    /\ UNCHANGED <<pc, axis_vars, step_hint, seg_ticks, frame_in, frame_out, tooltip_vars>>

CallSeriesFrom ==
    /\ pc = "series"
    /\ \E n \in 0..MaxLen, m \in 0..MaxLen :
          /\ arg' = <<"from", XsOfLen(n), YsOfLen(m)>>
          /\ result' = <<ColumnarSeries_from(<<XsOfLen(n), YsOfLen(m)>>)>>
    /\ UNCHANGED <<pc, axis_vars, step_hint, seg_ticks, frame_in, frame_out, tooltip_vars>>

\* slice called on the series obtained last
CallSeriesSlice ==
    /\ pc = "series"
    /\ result # <<>>
    /\ ~result[1].panicked
    /\ \E range \in Ranges :
          /\ arg' = <<"slice", result[1], range>>
          /\ result' = <<ColumnarSeries_slice(result[1], range)>>
    /\ UNCHANGED <<pc, axis_vars, step_hint, seg_ticks, frame_in, frame_out, tooltip_vars>>

NextSeries ==
    \/ CallSeriesNew
    \/ CallSeriesNewTruncating
    \/ CallSeriesEmpty
    \/ CallSeriesFrom
    \/ CallSeriesSlice

SpecSeries == InitSeries /\ [][NextSeries]_vars

----------------------------------------------------------------------------
(* Properties *)

Range(seq) == {seq[i] : i \in 1..Len(seq)}
Contains(seq, x) == \E i \in 1..Len(seq) : seq[i] = x
Count(seq, x) == Cardinality({i \in 1..Len(seq) : seq[i] = x})
RemoveAt(seq, i) == SubSeq(seq, 1, i - 1) \o SubSeq(seq, i + 1, Len(seq))
SortedAscending(seq) == \A i \in 1..(Len(seq) - 1) : seq[i] <= seq[i + 1]
Valid(seg) == is_finite(seg.start) /\ is_finite(seg.end) /\ seg.start.v < seg.end.v
Built == pc = "built" /\ variant # "none" /\ input # <<>>
Ticked == pc = "ticked"

\* C1: after SegmentedAxis::new / BrokenXAxis::new, for every input list, any
\* two consecutive segments satisfy segments[i].end <= segments[i+1].start and
\* segments[i].start < segments[i+1].start.
C1_SegmentsDisjointIncreasing ==
    pc = "built" =>
        \A i \in 1..(Len(axis.segments) - 1) :
            /\ FLe(axis.segments[i].end, axis.segments[i + 1].start)
            /\ FLt(axis.segments[i].start, axis.segments[i + 1].start)

\* The same ordering when no input interval has a NaN bound (the part of C1
\* that the constructors do achieve).
C1_HoldsWithoutNaN ==
    (pc = "built" /\ \A k \in 1..Len(input) : ~IsNaN(input[k].end)) =>
        \A i \in 1..(Len(axis.segments) - 1) :
            /\ FLe(axis.segments[i].end, axis.segments[i + 1].start)
            /\ FLt(axis.segments[i].start, axis.segments[i + 1].start)

\* C2: segment_ticks of either axis type returns one tick list per segment,
\* and for step_hint > 0 the list of every valid segment contains the
\* segment's start and its end.
C2_TicksContainBothEnds ==
    (Ticked /\ FLt(Fin(0), step_hint)) =>
        /\ Len(seg_ticks) = Len(axis.segments)
        /\ \A i \in 1..Len(axis.segments) :
               Valid(axis.segments[i]) =>
                   /\ Contains(seg_ticks[i], axis.segments[i].start.v)
                   /\ Contains(seg_ticks[i], axis.segments[i].end.v)

\* A run with a positive hint in which an end had to be forced into each of
\* two valid segments: 7 is no multiple of the step 5, and neither is 9.
C2_Witness ==
    /\ Ticked
    /\ variant = "broken"
    /\ step_hint = Fin(5)
    /\ axis.segments = <<Interval(Fin(0), Fin(7)), Interval(Fin(9), Fin(20))>>
    /\ seg_ticks = <<(<<0, 5, 7>>), (<<9, 10, 15, 20>>)>>

\* C3: for every valid segment and every step_hint the tick list is sorted
\* ascending, holds start exactly once and end exactly once, and holds no value
\* outside [start, end].
C3_TicksSortedOnceInside ==
    Ticked =>
        \A i \in 1..Len(axis.segments) :
            Valid(axis.segments[i]) =>
                LET lo == axis.segments[i].start.v
                    hi == axis.segments[i].end.v
                    ticks == seg_ticks[i]
                IN /\ SortedAscending(ticks)
                   /\ Count(ticks, lo) = 1
                   /\ Count(ticks, hi) = 1
                   /\ \A k \in 1..Len(ticks) : lo <= ticks[k] /\ ticks[k] <= hi

\* segment_ticks of the axis type at hand
TicksOf(v, segments, hint) ==
    IF v = "segmented" THEN SegmentedAxis_segment_ticks(segments, hint)
    ELSE BrokenXAxis_segment_ticks(segments, hint)

\* C7: a segment with a non-finite bound or with end <= start gets an empty
\* tick list at its own index; there is still one list per segment, and the
\* other lists are those computed with that segment removed from the set.
C7_MalformedSegmentOnlyEmptiesItself ==
    Ticked =>
        /\ Len(seg_ticks) = Len(axis.segments)
        /\ \A i \in 1..Len(axis.segments) :
               ~Valid(axis.segments[i]) =>
                   /\ seg_ticks[i] = <<>>
                   /\ RemoveAt(seg_ticks, i)
                          = TicksOf(variant, RemoveAt(axis.segments, i), step_hint)

\* A malformed segment beside a valid one whose ticks were generated, in the
\* variant where the segments share one step.
C7_Witness ==
    /\ Ticked
    /\ variant = "segmented"
    /\ Len(axis.segments) = 2
    /\ axis.segments[1] = Interval(Fin(10), Fin(7))
    /\ Valid(axis.segments[2])
    /\ Len(seg_ticks[2]) >= 3

SetMax(S) == CHOOSE x \in S : \A y \in S : y <= x

\* C8: SegmentedAxis::segment_ticks uses nice = nice_step(max raw_step of the
\* valid segments) for all segments: in a valid segment every tick other than
\* its start and end is a multiple of nice and every multiple of nice in
\* [start, end] is a tick; without a valid segment every list is empty.
C8_OneSharedStep ==
    (Ticked /\ variant = "segmented") =>
        LET segs == axis.segments
            valid == {i \in 1..Len(segs) : Valid(segs[i])}
            raws == {RawStep(segs[i].end.v - segs[i].start.v, step_hint) : i \in valid}
        IN IF valid = {} THEN \A i \in 1..Len(segs) : seg_ticks[i] = <<>>
           ELSE LET nice == nice_step(SetMax(raws))
                IN \A i \in valid :
                       LET lo == segs[i].start.v
                           hi == segs[i].end.v
                       IN /\ \A k \in 1..Len(seg_ticks[i]) :
                                 seg_ticks[i][k] \notin {lo, hi}
                                     => seg_ticks[i][k] % nice = 0
                          /\ \A m \in lo..hi :
                                 m % nice = 0 => Contains(seg_ticks[i], m)

\* Two valid segments whose own raw steps differ (5 and 1): both got the
\* multiples of the shared step 5.
C8_Witness ==
    /\ Ticked
    /\ variant = "segmented"
    /\ step_hint = Fin(5)
    /\ axis.segments = <<Interval(Fin(0), Fin(7)), Interval(Fin(9), Fin(10))>>
    /\ seg_ticks = <<(<<0, 5, 7>>), (<<9, 10>>)>>

\* The label rectangles of two TextShapes overlap (all labels of a frame share
\* their y and height, so they overlap when their x ranges do).
Overlap(a, b) == a.pos_x < b.pos_x + b.width /\ b.pos_x < a.pos_x + a.width

Sides == {"Center", "Left", "Right"}

\* C4: on a segmented X axis the tick at the start and the tick at the end of
\* every valid segment get a label drawn, provided the projection is finite,
\* the formatter's text is not empty and the label is not off-screen (here:
\* on whichever side it is placed), also when the tick shares its cluster.
C4_EveryBoundaryLabeled ==
    pc = "done" =>
        \A i \in 1..Len(axis.segments) :
            Valid(axis.segments[i]) =>
                \A b \in {axis.segments[i].start.v, axis.segments[i].end.v} :
                    LET screen_x == position_from_point_x(tf, b)
                    IN (/\ is_finite(screen_x)
                        /\ Format(widget, b) # ""
                        /\ \A side \in Sides :
                               ~ClippedOff(LabelPosX(ScreenTick(b, screen_x.v, TRUE), side,
                                                     ui.galley_w), ui.galley_w, widget))
                           => \E k \in 1..Len(painter) : painter[k].tick.world_x = b

\* C5: when label_spacing.min exceeds the width of every label, no two labels
\* drawn on the segmented X axis have overlapping rectangles.
C5_NoOverlappingLabels ==
    widget.label_spacing_min > ui.galley_w =>
        \A k, l \in 1..Len(painter) : k # l => ~Overlap(painter[k], painter[l])

\* The anchor of the last cluster before cluster j for which a label was drawn.
PrevDrawn(j) ==
    LET drawn == {i \in 1..(j - 1) : placed[i].drawn # <<>>}
    IN IF drawn = {} THEN None ELSE Some(clusters[SetMax(drawn)].screen_x)

\* The anchor of the last cluster before cluster j that the spacing rule let
\* through, whether or not any of its labels was drawn.
PrevVisited(j) ==
    LET visited == {i \in 1..(j - 1) : ~placed[i].skipped}
    IN IF visited = {} THEN None ELSE Some(clusters[SetMax(visited)].screen_x)

\* C6: a cluster is skipped exactly when it has no segment-edge member and its
\* anchor is less than label_spacing.min pixels from the anchor of the
\* previously drawn cluster; a cluster with an edge and the first cluster are
\* never skipped.
C6_SkippedIffNearPreviouslyDrawn ==
    \A j \in 1..Len(placed) :
        /\ placed[j].skipped <=>
               (/\ ~clusters[j].has_edge
                /\ PrevDrawn(j).some
                /\ Abs(clusters[j].screen_x - PrevDrawn(j).x) < widget.label_spacing_min)
        /\ clusters[j].has_edge => ~placed[j].skipped
        /\ j = 1 => ~placed[j].skipped

\* The rule of C6 with "the previously drawn cluster" read as the last cluster
\* the rule let through: this is what the loop does.
C6_SkippedIffNearPreviouslyVisited ==
    \A j \in 1..Len(placed) :
        placed[j].skipped <=>
            (/\ ~clusters[j].has_edge
             /\ PrevVisited(j).some
             /\ Abs(clusters[j].screen_x - PrevVisited(j).x) < widget.label_spacing_min)

\* The ticks of all clusters, in cluster order.
RECURSIVE Flatten(_)
Flatten(cs) == IF cs = <<>> THEN <<>> ELSE Head(cs).ticks \o Flatten(Tail(cs))

\* The position in Flatten(clusters) of the first member of cluster j.
RECURSIVE FirstPos(_)
FirstPos(j) == IF j = 1 THEN 1 ELSE FirstPos(j - 1) + Len(clusters[j - 1].ticks)

\* The cluster that holds position p of Flatten(clusters).
ClusterOf(p) ==
    CHOOSE j \in 1..Len(clusters) : FirstPos(j) <= p /\ p < FirstPos(j) + Len(clusters[j].ticks)

Clustered == pc = "clustered" /\ idx = 1

\* The clusters hold the ticks handed in, each once, in screen order.
SweepsSortedTicks ==
    LET flat == Flatten(clusters)
    IN /\ Len(flat) = Len(raw_ticks)
       /\ \A t \in Range(raw_ticks) : Count(flat, t) = Count(raw_ticks, t)
       /\ \A p \in 1..(Len(flat) - 1) : flat[p].screen_x <= flat[p + 1].screen_x
       /\ \A j \in 1..Len(clusters) :
              /\ clusters[j].ticks # <<>>
              /\ clusters[j].screen_x = clusters[j].ticks[1].screen_x

\* The distance of the tick at position p from the first member of the
\* cluster that the tick before it is in.
LeaderDistance(p) ==
    LET flat == Flatten(clusters)
    IN Abs(flat[p].screen_x - clusters[ClusterOf(p - 1)].screen_x)

\* C9 as stated: a tick starts a new cluster iff its distance from the current
\* cluster's first member exceeds threshold_px and is appended otherwise, a
\* distance equal to threshold_px included; N ticks all within threshold_px of
\* the first give one cluster of N, ticks pairwise more than threshold_px
\* apart give N singleton clusters.
C9_NewClusterIffBeyondThreshold ==
    Clustered =>
        /\ SweepsSortedTicks
        /\ \A p \in 2..Len(raw_ticks) :
               (ClusterOf(p) # ClusterOf(p - 1)) <=> (LeaderDistance(p) > CLUSTER_PX_THRESHOLD)
        /\ (\E f \in Range(raw_ticks) : \A t \in Range(raw_ticks) :
                /\ f.screen_x <= t.screen_x
                /\ t.screen_x - f.screen_x <= CLUSTER_PX_THRESHOLD)
               => Len(clusters) = 1 /\ Len(clusters[1].ticks) = Len(raw_ticks)
        /\ (\A k, l \in 1..Len(raw_ticks) :
                k # l => Abs(raw_ticks[k].screen_x - raw_ticks[l].screen_x) > CLUSTER_PX_THRESHOLD)
               => /\ Len(clusters) = Len(raw_ticks)
                  /\ \A j \in 1..Len(clusters) : Len(clusters[j].ticks) = 1

\* C9 as the code has it: a tick starts a new cluster iff its distance from
\* the current cluster's first member is threshold_px or more and is appended
\* iff the distance is below threshold_px; N ticks all less than threshold_px
\* from the leftmost give one cluster of N, ticks pairwise threshold_px or
\* more apart give N singleton clusters.
C9_NewClusterIffAtOrBeyondThreshold ==
    Clustered =>
        /\ SweepsSortedTicks
        /\ \A p \in 2..Len(raw_ticks) :
               (ClusterOf(p) # ClusterOf(p - 1)) <=> (LeaderDistance(p) >= CLUSTER_PX_THRESHOLD)
        /\ (\E f \in Range(raw_ticks) : \A t \in Range(raw_ticks) :
                /\ f.screen_x <= t.screen_x
                /\ t.screen_x - f.screen_x < CLUSTER_PX_THRESHOLD)
               => Len(clusters) = 1 /\ Len(clusters[1].ticks) = Len(raw_ticks)
        /\ (\A k, l \in 1..Len(raw_ticks) :
                k # l => Abs(raw_ticks[k].screen_x - raw_ticks[l].screen_x) >= CLUSTER_PX_THRESHOLD)
               => /\ Len(clusters) = Len(raw_ticks)
                  /\ \A j \in 1..Len(clusters) : Len(clusters[j].ticks) = 1

\* Three ticks at 0, 5 and 6 px swept into {0, 5} and {6}: 6 is exactly
\* threshold_px from the leader, and 1 px from its neighbour.
C9_Witness ==
    /\ Clustered
    /\ Len(raw_ticks) = 3
    /\ Len(clusters) = 2
    /\ clusters[1].screen_x = 0
    /\ Len(clusters[1].ticks) = 2
    /\ clusters[1].ticks[2].screen_x = 5
    /\ clusters[2].screen_x = 6

\* The least and the greatest world_x of a cluster's members.
MinWorld(cluster) ==
    CHOOSE w \in {t.world_x : t \in Range(cluster.ticks)} :
        \A t \in Range(cluster.ticks) : w <= t.world_x
MaxWorld(cluster) ==
    CHOOSE w \in {t.world_x : t \in Range(cluster.ticks)} :
        \A t \in Range(cluster.ticks) : w >= t.world_x

\* C10: a cluster that the spacing rule lets through gives one centered label
\* candidate if it has one member, and otherwise exactly two: its member of
\* least world_x, left-aligned, and its member of greatest world_x,
\* right-aligned; no other member of the cluster is labeled.
C10_OneOrTwoCandidates ==
    \A j \in 1..Len(placed) :
        ~placed[j].skipped =>
            LET cluster == clusters[j]
                to_draw == placed[j].to_draw
            IN /\ Len(cluster.ticks) = 1 =>
                      to_draw = <<[tick |-> cluster.ticks[1], side |-> "Center"]>>
               /\ Len(cluster.ticks) >= 2 =>
                      /\ Len(to_draw) = 2
                      /\ to_draw[1].tick \in Range(cluster.ticks)
                      /\ to_draw[1].tick.world_x = MinWorld(cluster)
                      /\ to_draw[1].side = "Left"
                      /\ to_draw[2].tick \in Range(cluster.ticks)
                      /\ to_draw[2].tick.world_x = MaxWorld(cluster)
                      /\ to_draw[2].side = "Right"
               /\ \A k \in 1..Len(placed[j].drawn) :
                      \E c \in 1..Len(to_draw) :
                          /\ placed[j].drawn[k].tick = to_draw[c].tick
                          /\ placed[j].drawn[k].side = to_draw[c].side
               /\ \A t \in Range(cluster.ticks) :
                      (Len(cluster.ticks) >= 2 /\ t.world_x \notin {MinWorld(cluster), MaxWorld(cluster)})
                          => \A k \in 1..Len(painter) : painter[k].tick # t

\* A frame with a cluster of three ticks of which the two outer ones are
\* drawn, and a cluster of one tick drawn centered.
C10_Witness ==
    /\ pc = "done"
    /\ \E j \in 1..Len(placed) :
           /\ ~placed[j].skipped
           /\ Len(clusters[j].ticks) = 3
           /\ Len(placed[j].drawn) = 2
    /\ \E j \in 1..Len(placed) :
           /\ ~placed[j].skipped
           /\ Len(clusters[j].ticks) = 1
           /\ Len(placed[j].drawn) = 1

\* C11: in a cluster of several members the label of the least world_x ends
\* 2 px left of the cluster's anchor (its screen_x) and the label of the
\* greatest world_x starts 2 px right of the anchor, whatever the screen_x of
\* the two ticks; the label of a singleton is centered on its tick.
C11_LabelsRelativeToAnchor ==
    \A j \in 1..Len(placed) :
        \A k \in 1..Len(placed[j].drawn) :
            LET shape == placed[j].drawn[k]
                anchor == clusters[j].screen_x
            IN /\ shape.side = "Left" => shape.pos_x + shape.width = anchor - 2
               /\ shape.side = "Right" => shape.pos_x = anchor + 2
               /\ shape.side = "Center" =>
                      2 * shape.pos_x + shape.width = 2 * shape.tick.screen_x

\* The loop body runs for a cluster that the spacing rule lets through and
\* whose label candidates all get the empty string from the formatter.
AllCandidatesEmpty ==
    /\ pc = "clustered"
    /\ idx <= Len(clusters)
    /\ ~SkippedBySpacing(clusters[idx], last_drawn_center_x, widget.label_spacing_min)
    /\ \A t \in Range(clusters[idx].ticks) : Format(widget, t.world_x) = ""

\* C12: a tick whose formatted text is empty is not drawn and leaves the
\* bookkeeping alone: a cluster all of whose candidates are empty adds no
\* shape, does not raise thickness and does not change the anchor the spacing
\* rule compares the following clusters with.
C12_EmptyTextLeavesBookkeeping ==
    [][(AllCandidatesEmpty /\ idx' = idx + 1) =>
           /\ painter' = painter
           /\ thickness' = thickness
           /\ last_drawn_center_x' = last_drawn_center_x]_vars

\* The shapes that cluster j drew for the label candidate c.
ShapesOf(j, c) ==
    {k \in 1..Len(placed[j].drawn) :
        /\ placed[j].drawn[k].tick = c.tick
        /\ placed[j].drawn[k].side = c.side}

\* The label of candidate c lies wholly left or wholly right of the axis rect.
FullyOffScreen(c) ==
    LET left == LabelPosX(c.tick, c.side, ui.galley_w)
    IN left + ui.galley_w < widget.rect_min_x \/ left > widget.rect_max_x

\* C13: on the segmented X axis a measured label is dropped iff it is wholly
\* off-screen horizontally; every other label, a partly visible one included,
\* is drawn once, at its computed position.
C13_DroppedIffFullyOffScreen ==
    \A j \in 1..Len(placed) :
        \A n \in 1..Len(placed[j].to_draw) :
            LET c == placed[j].to_draw[n]
            IN Format(widget, c.tick.world_x) # "" =>
                   /\ FullyOffScreen(c) <=> ShapesOf(j, c) = {}
                   /\ ~FullyOffScreen(c) =>
                          /\ Cardinality(ShapesOf(j, c)) = 1
                          /\ \A k \in ShapesOf(j, c) :
                                 placed[j].drawn[k].pos_x
                                     = LabelPosX(c.tick, c.side, ui.galley_w)

\* A frame that dropped a label wholly left of the rect and drew one that
\* sticks out of the rect on the left.
C13_Witness ==
    /\ pc = "done"
    /\ \E j \in 1..Len(placed) : \E n \in 1..Len(placed[j].to_draw) :
           /\ Format(widget, placed[j].to_draw[n].tick.world_x) # ""
           /\ FullyOffScreen(placed[j].to_draw[n])
    /\ \E k \in 1..Len(painter) :
           /\ painter[k].pos_x < widget.rect_min_x
           /\ painter[k].pos_x + painter[k].width > widget.rect_min_x

\* The greatest of the numbers S, 0 if there is none.
MaxOrZero(S) == IF S = {} THEN 0 ELSE CHOOSE m \in S : \A n \in S : m >= n

\* C14 as stated: the thickness returned by add_tick_labels is the maximum,
\* over exactly the labels drawn, of the label's height on the X axis and of
\* its width on the Y axis, and 0 when no label was drawn.
C14_ThicknessIsMaxDrawnExtent ==
    pc = "done" =>
        thickness = MaxOrZero({IF axis_xy = "X" THEN painter[k].height ELSE painter[k].width :
                                  k \in 1..Len(painter)})

\* C14 as the code has it: on the Y axis the extent of a label is its width
\* plus SIDE_MARGIN on both sides.
C14_ThicknessIsMaxDrawnExtentWithMargin ==
    pc = "done" =>
        thickness = MaxOrZero({IF axis_xy = "X" THEN painter[k].height
                               ELSE painter[k].width + 2 * SIDE_MARGIN :
                                  k \in 1..Len(painter)})

\* A Y axis with two grid marks: the wide label is not drawn, the narrow one
\* is, and the thickness is that of the narrow one.
C14_Witness ==
    /\ pc = "done"
    /\ axis_xy = "Y"
    /\ Len(steps) = 2
    /\ steps[1].galley_w = 120
    /\ Len(painter) = 1
    /\ painter[1].width = 10
    /\ thickness = 18

\* The powers of ten up to 10 * MaxStep.
RECURSIVE PowersOfTenUpTo(_)
PowersOfTenUpTo(n) ==
    IF n < 1 THEN {} ELSE {1} \cup {10 * p : p \in PowersOfTenUpTo(n \div 10)}

\* 10^floor(log10(step)): the power of ten p with p <= step < 10 * p.
Decade(step) == CHOOSE p \in PowersOfTenUpTo(step) : p <= step /\ step < 10 * p

\* C15: for every step > 0, nice_step(step) = m * 10^floor(log10(step)),
\* where m is 1 if the mantissa step / 10^floor(log10(step)) is below 1.5, 2 if
\* it is below 3.5, 5 if it is below 7.5 and 10 otherwise; the result is 1, 2,
\* 5 or 10 times a power of ten.
C15_NiceStepOfMantissa ==
    (pc = "nice_step" /\ result # <<>>) =>
        LET step == arg[1]
            p == Decade(step)
            m == IF 10 * step < 15 * p THEN 1
                 ELSE IF 10 * step < 35 * p THEN 2
                 ELSE IF 10 * step < 75 * p THEN 5
                 ELSE 10
        IN /\ result[1] = m * p
           /\ \E q \in PowersOfTenUpTo(10 * MaxStep) : result[1] \in {q, 2 * q, 5 * q, 10 * q}

\* nice_step was applied to steps of mantissa 3 and 7, which give 2 and 5.
C15_Witness ==
    /\ pc = "nice_step"
    /\ arg \in {<<300>>, <<700>>}
    /\ result \in {<<200>>, <<500>>}

\* s = m * 10^k with m in {1, 2, 5, 10}.
IsNice(s) == \E q \in PowersOfTenUpTo(s) : s \in {q, 2 * q, 5 * q, 10 * q}

IntervalEq(x, y) == FEq(x.start, y.start) /\ FEq(x.end, y.end)

\* The arguments of the call are finite; none of them is NaN.
ArgsAreFinite == \A i \in 2..Len(arg) : is_finite(arg[i])
ArgsAreNumbers == \A i \in 2..Len(arg) : ~IsNaN(arg[i])

\* For finite a and b, Interval::new(a, b) has the lesser of the two as its
\* start and the greater as its end, and equals Interval::new(b, a).
NewIsOrderIndependent ==
    /\ (arg[1] = "new" /\ ArgsAreFinite /\ Len(result) >= 1) =>
           /\ result[1].start \in {arg[2], arg[3]}
           /\ result[1].end \in {arg[2], arg[3]}
           /\ result[1].start.v <= arg[2].v /\ result[1].start.v <= arg[3].v
           /\ result[1].end.v >= arg[2].v /\ result[1].end.v >= arg[3].v
    /\ (arg[1] = "new" /\ ArgsAreFinite /\ Len(result) = 2) =>
           IntervalEq(result[1], result[2])

\* C17 as stated: for all finite a and b, Interval::new(a, b) ==
\* Interval::new(b, a), with start = min(a, b) and end = max(a, b); so every
\* interval built by new, closed, below, above or all has start <= end.
C17_EveryIntervalOrdered ==
    pc = "interval" =>
        /\ NewIsOrderIndependent
        /\ \A i \in 1..Len(result) : FLe(result[i].start, result[i].end)

\* C17 for arguments that are not NaN: every interval that new, closed, below,
\* above or all build from finite or infinite arguments has start <= end.
C17_OrderedUnlessNaN ==
    pc = "interval" =>
        /\ NewIsOrderIndependent
        /\ ArgsAreNumbers =>
               \A i \in 1..Len(result) : FLe(result[i].start, result[i].end)

\* Interval::new(10, 5) and Interval::new(5, 10) both returned [5, 10].
C17_Witness ==
    /\ pc = "interval"
    /\ arg = <<"new", Fin(10), Fin(5)>>
    /\ result = <<Interval(Fin(5), Fin(10)), Interval(Fin(5), Fin(10))>>

\* The uniform variant ran with a hint that is a nice value, on valid
\* segments none of which is shorter than the hint.
NiceHintWithinSpans ==
    /\ Ticked
    /\ variant = "segmented"
    /\ axis.segments # <<>>
    /\ is_finite(step_hint)
    /\ step_hint.v > 0
    /\ IsNice(step_hint.v)
    /\ \A i \in 1..Len(axis.segments) :
           /\ Valid(axis.segments[i])
           /\ axis.segments[i].end.v - axis.segments[i].start.v >= step_hint.v

\* The ticks of segment i are the multiples of the hint in [start, end],
\* start and end.
TicksAreMultiplesAndEnds(i) ==
    LET lo == axis.segments[i].start.v
        hi == axis.segments[i].end.v
    IN Range(seg_ticks[i]) = {t \in lo..hi : t % step_hint.v = 0} \cup {lo, hi}

\* C18: in the uniform variant, with a step_hint that is a nice value and
\* segments whose spans are all >= step_hint, the ticks of each segment are
\* exactly the multiples of step_hint in [start, end] and the segment's own
\* start and end, whatever the other segments are.
C18_MultiplesOfHintAndEnds ==
    NiceHintWithinSpans =>
        \A i \in 1..Len(axis.segments) : TicksAreMultiplesAndEnds(i)

\* No multiple of the hint lies within EPSILON above the end of a segment.
NoMultipleJustAboveEnd ==
    \A i \in 1..Len(axis.segments) :
        \A t \in (axis.segments[i].end.v + 1)..(axis.segments[i].end.v + EPSILON) :
            t % step_hint.v # 0

\* C18 where the hint is not below EPSILON (a smaller one is clamped to it)
\* and the stopping test of C3 admits nothing above a segment's end.
C18_HoldsAwayFromEpsilon ==
    (NiceHintWithinSpans /\ step_hint.v >= EPSILON /\ NoMultipleJustAboveEnd) =>
        \A i \in 1..Len(axis.segments) : TicksAreMultiplesAndEnds(i)

\* step_hint is at least seg's span (an infinite hint included).
HintCoversSpan(seg) ==
    /\ Valid(seg)
    /\ FLe(Fin(seg.end.v - seg.start.v), step_hint)

\* min(span, max(step_hint, epsilon))
MinSpanHint(span) ==
    LET h == FMax(step_hint, Fin(EPSILON))
    IN IF FLt(h, Fin(span)) THEN h.v ELSE span

\* The ticks of segment i are its start, its end and the multiples of
\* nice_step(span) between them.
TicksAreEndsAndMultiplesOfNiceSpan(i) ==
    LET lo == axis.segments[i].start.v
        hi == axis.segments[i].end.v
        nice == nice_step(hi - lo)
    IN Range(seg_ticks[i]) = {lo, hi} \cup {t \in lo..hi : t % nice = 0}

\* C19: raw_step = min(span, max(step_hint, epsilon)); when step_hint is at
\* least a segment's span, raw_step is the span and the segment's ticks are
\* its start, its end and the multiples of nice_step(span) between them.
C19_HintAtLeastSpan ==
    Ticked =>
        \A i \in 1..Len(axis.segments) :
            LET seg == axis.segments[i]
            IN /\ Valid(seg) =>
                      RawStep(seg.end.v - seg.start.v, step_hint)
                          = MinSpanHint(seg.end.v - seg.start.v)
               /\ HintCoversSpan(seg) =>
                      /\ RawStep(seg.end.v - seg.start.v, step_hint) = seg.end.v - seg.start.v
                      /\ TicksAreEndsAndMultiplesOfNiceSpan(i)

\* C19 for one segment, or segments with a step of their own, where the
\* stopping test of C3 admits nothing above the segment's end.
C19_HoldsAwayFromEpsilon ==
    (Ticked /\ (variant = "broken" \/ Len(axis.segments) = 1)) =>
        \A i \in 1..Len(axis.segments) :
            LET seg == axis.segments[i]
            IN (/\ HintCoversSpan(seg)
                /\ \A t \in (seg.end.v + 1)..(seg.end.v + EPSILON) :
                       t % nice_step(seg.end.v - seg.start.v) # 0)
                   => TicksAreEndsAndMultiplesOfNiceSpan(i)

\* segment_ticks ran with a finite step_hint <= 0.
HintNotPositive == Ticked /\ is_finite(step_hint) /\ step_hint.v <= 0

----------------------------------------------------------------------------
(* Pins *)

\* push, pop and clear of the pin list, for the keys pressed: P, then U, then Delete
Push(list, pin) == list \o <<pin>>
DropLast(list) == IF Len(list) = 0 THEN list ELSE [k \in 1..(Len(list) - 1) |-> list[k]]
ApplyPinKeys(list, keys, pin) ==
    LET afterP == IF "P" \in keys THEN Push(list, pin) ELSE list
        afterU == IF "U" \in keys THEN DropLast(afterP) ELSE afterP
    IN IF "Delete" \in keys THEN <<>> ELSE afterU

\* The selection band of a frame with input i is not empty.
BandNotEmpty(i) ==
    /\ i.pointer.some
    /\ Min(i.pointer.x + options.radius_px, PlotFrame.right)
           > Max(i.pointer.x - options.radius_px, PlotFrame.left)

\* The pin a frame with input i and hits h takes: h and the pointer's plot-space x.
PinOf(i, h) == PinnedPoints(h, value_from_position_x(tf, i.pointer.x))

\* C21 as stated: in every frame in which the plot is hovered the pin list
\* becomes the list with P (push the current hits and the pointer's plot x),
\* U (pop) and Delete (clear) applied in this order.
C21_PinProtocolWhenHovered ==
    [][inp'.hovered => pins' = ApplyPinKeys(pins, inp'.keys, PinOf(inp', hits'))]_vars

\* C21, amended: in every frame in which the plot is hovered and the selection
\* band is not empty, the pin list becomes the list with P, U and Delete
\* applied in this order, where P pushes only if the frame has a hit.
C21_PinProtocolWhenHoveredOverBand ==
    [][(inp'.hovered /\ BandNotEmpty(inp'))
          => pins' = ApplyPinKeys(pins,
                                  IF hits' = <<>> THEN inp'.keys \ {"P"} ELSE inp'.keys,
                                  PinOf(inp', hits'))]_vars

\* A hovered frame with P pressed has appended its hits behind an earlier, different pin.
C21_Witness ==
    /\ inp.hovered
    /\ inp.keys = {"P"}
    /\ hits # <<>>
    /\ Len(pins) = 2
    /\ pins[2] = PinOf(inp, hits)
    /\ pins[1] # pins[2]


\* The keys of the frame as the configuration reads them: P, U, Delete stand for
\* pin_add_key, pin_remove_key and pins_clear_key being pressed.
ConfiguredKeys(config, keys) ==
    {k \in {"P"} : config.pin_add_key \in keys}
        \cup {k \in {"U"} : config.pin_remove_key \in keys}
        \cup {k \in {"Delete"} : config.pins_clear_key \in keys}

\* C22: with pinning_enabled false no frame changes the pin list, whatever
\* keys are pressed; with pinning_enabled true the keys that push, pop and
\* clear are pin_add_key, pin_remove_key and pins_clear_key of the
\* NavigationConfig, and a key that is None is never pressed.
C22_PinKeysFollowNavigationConfig ==
    [][IF ~nav.pinning_enabled THEN pins' = pins
       ELSE (inp'.hovered /\ BandNotEmpty(inp'))
               => LET keys == ConfiguredKeys(nav, inp'.keys)
                  IN pins' = ApplyPinKeys(pins,
                                          IF hits' = <<>> THEN keys \ {"P"} ELSE keys,
                                          PinOf(inp', hits'))]_vars

----------------------------------------------------------------------------
(* ColumnarSeries *)

\* The index range lo..hi (first index, one past the last) a RangeBounds names.
RangeLo(range) ==
    IF range.start_bound.bound = "Unbounded" THEN 0
    ELSE IF range.start_bound.bound = "Included" THEN range.start_bound.i
    ELSE range.start_bound.i + 1
RangeHi(range, len) ==
    IF range.end_bound.bound = "Unbounded" THEN len
    ELSE IF range.end_bound.bound = "Included" THEN range.end_bound.i + 1
    ELSE range.end_bound.i

\* The samples of s with index in lo..hi - 1 clamped to [0, len]
Clamped(seq, lo, hi) ==
    LET from == IF lo > Len(seq) THEN Len(seq) ELSE lo
        to == IF hi > Len(seq) THEN Len(seq) ELSE hi
    IN [k \in 1..(IF to > from THEN to - from ELSE 0) |-> seq[from + k]]

\* C23: every series obtained has xs and ys of one length; new (and From)
\* panics iff the lengths differ and otherwise keeps both slices;
\* new_truncating never panics and keeps the first min(len) samples of each;
\* slice never panics and returns the samples of the range clamped to
\* [0, len()], none for an empty or reversed range.
C23_SeriesLengthsEqual ==
    result # <<>> /\ pc = "series" =>
        LET out == result[1]
        IN /\ ~out.panicked => Len(out.xs) = Len(out.ys)
           /\ arg[1] \in {"new", "from"} =>
                 /\ out.panicked <=> Len(arg[2]) # Len(arg[3])
                 /\ ~out.panicked => out.xs = arg[2] /\ out.ys = arg[3]
           /\ arg[1] = "new_truncating" =>
                 /\ ~out.panicked
                 /\ Len(out.xs) = Min(Len(arg[2]), Len(arg[3]))
                 /\ out.xs = Clamped(arg[2], 0, Len(arg[3]))
                 /\ out.ys = Clamped(arg[3], 0, Len(arg[2]))
           /\ arg[1] = "EMPTY" => ~out.panicked /\ out.xs = <<>> /\ out.ys = <<>>
           /\ arg[1] = "slice" =>
                 LET lo == RangeLo(arg[3])
                     hi == RangeHi(arg[3], Len(arg[2].xs))
                 IN /\ ~out.panicked
                    /\ out.xs = Clamped(arg[2].xs, lo, hi)
                    /\ out.ys = Clamped(arg[2].ys, lo, hi)

\* slice of a truncated series with a range that reaches past its end has
\* returned the samples from the range's start to the end of the series.
C23_Witness ==
    /\ pc = "series"
    /\ Len(arg) = 3
    /\ arg[1] = "slice"
    /\ Len(arg[2].xs) = 2
    /\ arg[3] = [start_bound |-> Excluded(0), end_bound |-> Included(usize_MAX)]
    /\ result[1].xs = <<20>>
    /\ result[1].ys = <<21>>

----------------------------------------------------------------------------
(* Tooltip hits *)

BandMinX(i) == Max(i.pointer.x - options.radius_px, PlotFrame.left)
BandMaxX(i) == Min(i.pointer.x + options.radius_px, PlotFrame.right)

\* Screen x of a sample and its horizontal distance to the pointer
ScreenX(sample) == position_from_point_x(tf, sample.value.x).v
ScreenDx(sample, i) == Abs(ScreenX(sample) - i.pointer.x)

\* Indices of the samples of an item that lie in the band
InBand(samples, i) ==
    {j \in 1..Len(samples) : ScreenX(samples[j]) >= BandMinX(i) /\ ScreenX(samples[j]) <= BandMaxX(i)}

\* The in-band sample closest to the pointer, the first of them on ties
Closest(samples, i) ==
    CHOOSE j \in InBand(samples, i) :
        \A other \in InBand(samples, i) :
            \/ ScreenDx(samples[j], i) < ScreenDx(samples[other], i)
            \/ ScreenDx(samples[j], i) = ScreenDx(samples[other], i) /\ j <= other

\* The hits of a frame hold, for each series in `kinds` that takes part in
\* hovering and has a sample in the band, one HitPoint, that of its closest
\* in-band sample, and nothing for any other of these series.
OneAnchorPerSeries(kinds) ==
    (pc = "tooltip" /\ BandNotEmpty(inp)) =>
        \A k \in 1..Len(items) :
            LET item == items[k]
                samples == Visited(item.geometry)
                mine == {h \in 1..Len(hits) : hits[h].series_name = item.name}
            IN item.geometry.kind \in kinds =>
                  IF item.allow_hover /\ InBand(samples, inp) # {}
                  THEN \E h \in mine :
                          /\ mine = {h}
                          /\ hits[h].value = samples[Closest(samples, inp)].value
                          /\ hits[h].screen_dx = ScreenDx(samples[Closest(samples, inp)], inp)
                  ELSE mine = {}

\* C24: for every hover-enabled series with point geometry (Points, PointsXY
\* or BlocksXY) that has a point in the band, hits has exactly one HitPoint,
\* the in-band point closest to the pointer (lowest index on ties); hits has
\* nothing for a series without an in-band point.
C24_OneAnchorPerSeriesInBand == OneAnchorPerSeries({"Points", "PointsXY", "BlocksXY"})

\* The same for the series that are Points or PointsXY.
C24_HoldsForPointsAndPointsXY == OneAnchorPerSeries({"Points", "PointsXY"})

----------------------------------------------------------------------------
(* Frames that leave the pins alone *)

\* C29: a frame in which the plot is not hovered, the pointer position is
\* unknown or the selection band is empty leaves the stored pin list as it
\* was, whatever keys are pressed; a hovered frame over a band without hits
\* adds no pin for P and still pops for U and clears for Delete.
C29_PinsUntouchedUnlessHoveredOverBand ==
    [][/\ (~inp'.hovered \/ ~inp'.pointer.some \/ ~BandNotEmpty(inp')) => pins' = pins
       /\ (inp'.hovered /\ BandNotEmpty(inp') /\ hits' = <<>>)
             => /\ "Delete" \in inp'.keys => pins' = <<>>
                /\ ("U" \in inp'.keys /\ "Delete" \notin inp'.keys) => pins' = DropLast(pins)
                /\ inp'.keys \subseteq {"P", "A"} => pins' = pins]_vars

\* A hovered frame over a band without hits, with P and U pressed, has left one
\* pin of two.
C29_Witness ==
    /\ pc = "tooltip"
    /\ inp.hovered
    /\ BandNotEmpty(inp)
    /\ hits = <<>>
    /\ inp.keys = {"P", "U"}
    /\ Len(pins) = 1

----------------------------------------------------------------------------
(* Projection of the ticks *)

\* Tick j of segment s has a finite projection.
Projects(s, j) == is_finite(position_from_point_x(tf, seg_ticks[s][j]))

\* The ScreenTick that tick j of segment s gives.
ScreenTickOf(s, j) ==
    LET world_x == seg_ticks[s][j]
    IN [world_x |-> world_x,
        screen_x |-> position_from_point_x(tf, world_x).v,
        is_segment_edge |-> Fin(world_x) \in {axis.segments[s].start, axis.segments[s].end}]

\* The per-segment ticks with a finite projection that give `tick`.
Producers(tick) ==
    {p \in {<<s, j>> : s \in 1..Len(seg_ticks), j \in 1..(MaxOrZero({Len(seg_ticks[k]) : k \in 1..Len(seg_ticks)}))} :
        /\ p[2] <= Len(seg_ticks[p[1]])
        /\ Projects(p[1], p[2])
        /\ ScreenTickOf(p[1], p[2]) = tick}

\* C25: compute_segmented_x_ticks returns one ScreenTick for each per-segment
\* tick with a finite projection and no other, in non-decreasing order of
\* screen_x, and is_segment_edge tells whether world_x is the start or the
\* end of the segment the tick came from.
C25_OneScreenTickPerFiniteTick ==
    pc = "projected" =>
        /\ \A i \in 1..Len(raw_ticks) :
              Count(raw_ticks, raw_ticks[i]) = Cardinality(Producers(raw_ticks[i]))
        /\ \A s \in 1..Len(seg_ticks) : \A j \in 1..Len(seg_ticks[s]) :
              Projects(s, j) => Contains(raw_ticks, ScreenTickOf(s, j))
        /\ \A i \in 1..(Len(raw_ticks) - 1) : raw_ticks[i].screen_x <= raw_ticks[i + 1].screen_x

\* Two segments projected by a flipped transform: the ticks of the second
\* segment come first, edges and other ticks among them.
C25_Witness ==
    /\ pc = "projected"
    /\ tf.px_per_unit < 0
    /\ Len(seg_ticks) = 2
    /\ Len(raw_ticks) = Len(seg_ticks[1]) + Len(seg_ticks[2])
    /\ raw_ticks[1].world_x = axis.segments[2].end.v
    /\ raw_ticks[1].is_segment_edge
    /\ \E i \in 1..Len(raw_ticks) : ~raw_ticks[i].is_segment_edge

----------------------------------------------------------------------------
(* Coverage *)

\* x lies in the interval: start <= x <= end
Covers(iv, x) == FLe(iv.start, x) /\ FLe(x, iv.end)

\* x lies in an input interval with start # end
InputCovers(x) ==
    \E k \in 1..Len(input) : ~FEq(input[k].start, input[k].end) /\ Covers(input[k], x)

SegmentsCover(x) == \E s \in 1..Len(axis.segments) : Covers(axis.segments[s], x)

\* The bounds of the input intervals, a point between any two neighbours and
\* one beyond either end: two unions of such intervals are equal iff they
\* hold the same of these points.
CoverPoints == {Fin(x) : x \in {-50, 0, 50, 100, 125, 150, 300, 400, 450}}

\* The union of the segments is the union of the input intervals with
\* start # end, no segment has start = end, and every tick lies in an input
\* interval with start # end.
CoverageKept ==
    /\ \A x \in CoverPoints : SegmentsCover(x) <=> InputCovers(x)
    /\ \A s \in 1..Len(axis.segments) : ~FEq(axis.segments[s].start, axis.segments[s].end)
    /\ pc = "ticked" =>
          \A s \in 1..Len(seg_ticks) : \A j \in 1..Len(seg_ticks[s]) :
              InputCovers(Fin(seg_ticks[s][j]))

\* C26: SegmentedAxis::new / BrokenXAxis::new keep the coverage of every
\* input list, in any order: the union of the segments is the union of the
\* input intervals with start # end; a zero-width input is no segment,
\* bridges no two intervals and has no tick.
C26_CoveragePreserved == pc \in {"built", "ticked"} => CoverageKept

\* The same for input lists without a NaN bound.
C26_HoldsWithoutNaN ==
    (pc \in {"built", "ticked"}
        /\ \A k \in 1..Len(input) : ~IsNaN(input[k].start) /\ ~IsNaN(input[k].end))
        => CoverageKept

----------------------------------------------------------------------------
(* The two variants of segment_ticks *)

ValidSegments(segments) == {s \in 1..Len(segments) : Valid(segments[s])}

\* span >= max(step_hint, epsilon)
SpanAtLeastHint(seg, hint) == FLe(ClampHint(hint), Fin(seg.end.v - seg.start.v))

\* What the variant that was not called returns for the same axis and hint.
OtherVariantTicks ==
    IF variant = "segmented" THEN BrokenXAxis_segment_ticks(axis.segments, step_hint)
    ELSE SegmentedAxis_segment_ticks(axis.segments, step_hint)

\* C27: BrokenXAxis::segment_ticks and SegmentedAxis::segment_ticks return the
\* same for the same segments and step_hint if at most one segment is valid
\* or every valid segment spans at least max(step_hint, epsilon).
C27_VariantsCoincide ==
    (Ticked /\ (\/ Cardinality(ValidSegments(axis.segments)) <= 1
                \/ \A s \in ValidSegments(axis.segments) :
                      SpanAtLeastHint(axis.segments[s], step_hint)))
        => seg_ticks = OtherVariantTicks

\* The same when no multiple of the step lies in (end, end + epsilon] of a
\* valid segment: the stopping test then admits nothing beyond end.
C27_HoldsAwayFromEpsilon ==
    (Ticked /\ (\/ Cardinality(ValidSegments(axis.segments)) <= 1
                \/ \A s \in ValidSegments(axis.segments) :
                      SpanAtLeastHint(axis.segments[s], step_hint))
            /\ \A s \in ValidSegments(axis.segments) :
                  \A j \in 1..Len(seg_ticks[s]) : seg_ticks[s][j] <= axis.segments[s].end.v)
        => seg_ticks = OtherVariantTicks

----------------------------------------------------------------------------
(* Clusters as a partition *)

\* C28: cluster_overlapping_ticks partitions its input: the clusters are
\* non-empty, their concatenation is the input sorted by screen_x (every
\* tick in exactly one cluster), a cluster's screen_x is that of its first
\* member, which no member is left of and every member is less than the
\* threshold right of, and has_edge tells whether a member is a segment edge.
C28_ClustersPartitionTicks ==
    Clustered =>
        LET flat == Flatten(clusters)
        IN /\ Len(flat) = Len(raw_ticks)
           /\ \A t \in Range(raw_ticks) \cup Range(flat) : Count(flat, t) = Count(raw_ticks, t)
           /\ \A p \in 1..(Len(flat) - 1) : flat[p].screen_x <= flat[p + 1].screen_x
           /\ \A j \in 1..Len(clusters) :
                 LET c == clusters[j]
                 IN /\ Len(c.ticks) >= 1
                    /\ c.screen_x = c.ticks[1].screen_x
                    /\ \A m \in 1..Len(c.ticks) :
                          /\ c.ticks[m].screen_x >= c.screen_x
                          /\ c.ticks[m].screen_x - c.screen_x < CLUSTER_PX_THRESHOLD
                    /\ c.has_edge <=> \E m \in 1..Len(c.ticks) : c.ticks[m].is_segment_edge

\* Three ticks handed in out of screen order: the two close ones share a
\* cluster that has an edge through its second member only.
C28_Witness ==
    /\ Clustered
    /\ Len(raw_ticks) = 3
    /\ raw_ticks[1].screen_x > raw_ticks[2].screen_x
    /\ Len(clusters) = 2
    /\ Len(clusters[1].ticks) = 2
    /\ ~clusters[1].ticks[1].is_segment_edge
    /\ clusters[1].ticks[2].is_segment_edge
    /\ clusters[1].has_edge
    /\ ~clusters[2].has_edge

----------------------------------------------------------------------------
(* Size of the tick lists *)

\* The step segment_ticks uses for segment i: the shared one of SegmentedAxis,
\* the segment's own of BrokenXAxis.
StepUsed(i) ==
    IF variant = "segmented" THEN nice_step(MaxRawStep(axis.segments, step_hint, 0))
    ELSE nice_step(RawStep(axis.segments[i].end.v - axis.segments[i].start.v, step_hint))

\* The step of every valid segment is positive, so that the loop advances,
\* and the segment's list has at most floor((end - start) / nice) + 3 ticks.
TickCountBounded(i) ==
    /\ StepUsed(i) > 0
    /\ Len(seg_ticks[i])
           <= ((axis.segments[i].end.v - axis.segments[i].start.v) \div StepUsed(i)) + 3

\* C30: segment_ticks returns for every segment set and every step_hint, the
\* generating loop advancing by a positive step until it passes end + epsilon,
\* with at most floor((end - start) / nice) + 3 ticks for each valid segment.
C30_TickCountBounded ==
    Ticked => \A i \in 1..Len(axis.segments) : Valid(axis.segments[i]) => TickCountBounded(i)

\* The same for the valid segments that have no tick beyond their end.
C30_HoldsAwayFromEpsilon ==
    Ticked =>
        \A i \in 1..Len(axis.segments) :
            (Valid(axis.segments[i])
                /\ \A j \in 1..Len(seg_ticks[i]) : seg_ticks[i][j] <= axis.segments[i].end.v)
                => TickCountBounded(i)

====
